---- MODULE Spec2Model ----
(***************************************************************************)
(* Model of the dialog/dispatch engine of src/main_webhook.py: the         *)
(* fingerprint cache, the callback action registry, the per-user pending   *)
(* link queue, the text router and the ingest handlers.                    *)
(*                                                                         *)
(* Handlers are coroutines on one asyncio event loop (one task per webhook *)
(* request): a handler runs atomically from one await to the next, and     *)
(* other handlers may run while it is suspended.  Every action below is    *)
(* one such segment of one handler.                                        *)
(***************************************************************************)
EXTENDS Integers, Sequences, FiniteSets, TLC

\* ------------------------------------------------------------- bounds
MaxTasks == 2        \* handlers in flight at the same time
NumFiles == 2        \* distinct file_unique_id values delivered
MaxMatches == 2      \* longest contact_matches list of a pipeline result
MaxCounter == 4      \* cap of the callback counter
MaxHistory == 1      \* cap of the chat round trips recorded per user
MaxMessages == 2     \* most messages a chat reply is sent in
MaxNow == 700        \* the clock stops here
TickStep == 100      \* seconds the clock advances in one tick
MaxRounds == 21      \* cap of the chat round trips recorded in SpecHistory
LongStep == 50000    \* seconds the clock advances in one long tick
MaxLongNow == 100000 \* the clock of SpecHistory stops here

\* --------------------------------------------------- program constants
DEDUP_TTL == 300
MAX_SHOWN == 5
MAX_BUTTONS == 3

VARIABLES
    recently_processed_files,   \* dict file_unique_id -> time of first sighting
    pending_contact_actions,    \* dict callback key -> action data
    pending_contact_creation,   \* dict user -> pending state
    conversation_history,       \* dict user -> list of messages
    callback_counter,           \* _callback_counter
    config,                     \* the environment the process was started with
    now,                        \* time.time()
    tasks,                      \* the handler coroutines in flight
    finished,                   \* the handler that returned in the last step
    ingest_seq,                 \* history: ingest events accepted so far
    latest,                     \* history: per user, the last accepted event
    acks,                       \* history: resolutions acknowledged per user
    pressed,                    \* history: callback keys whose press was handled
    sighting,                   \* history: per file, its first sighting
    last_seen                   \* history: the last _is_duplicate_file call

vars == <<recently_processed_files, pending_contact_actions,
          pending_contact_creation, conversation_history, callback_counter,
          config, now, tasks, finished, ingest_seq, latest, acks, pressed,
          sighting, last_seen>>

Users == {"u1", "u2"}
Files == 1..NumFiles
TaskIds == 1..MaxTasks

\* ------------------------------------------------------ dict helpers
\* d.pop(k, None)
Pop(d, k) == [x \in (DOMAIN d) \ {k} |-> d[x]]

\* d[k] = v
Put(d, k, v) == [x \in (DOMAIN d) \cup {k} |-> IF x = k THEN v ELSE d[x]]

\* ------------------------------------------------- fingerprint cache
\* a purge that already drops an entry at the age of 300 seconds
ExpiredFilesAtTtl(files, t) == {k \in DOMAIN files : t - files[k] >= DEDUP_TTL}

\* expired = [k for k, v in recently_processed_files.items() if now - v > 300]
ExpiredFiles(files, t) == {k \in DOMAIN files : t - files[k] > DEDUP_TTL}

\* a purge loop that removes nothing
KeepEveryFile(files, t) == files

\* the cache after the purge loop
PurgedFiles(files, t) ==
    [k \in (DOMAIN files) \ ExpiredFiles(files, t) |-> files[k]]

\* a check that recognises no duplicate
NeverDuplicate(files, f, t) == FALSE

\* the value _is_duplicate_file returns
IsDuplicateFile(files, f, t) == f \in DOMAIN PurgedFiles(files, t)

\* the cache _is_duplicate_file leaves behind
FilesAfterCheck(files, f, t) ==
    IF IsDuplicateFile(files, f, t)
    THEN PurgedFiles(files, t)
    ELSE Put(PurgedFiles(files, t), f, t)

\* ------------------------------------------------------- text replies
\* A message text is the sequence of its characters. A character is a
\* string of length one; the characters are those of Latin-1.

\* the characters str.isdecimal() accepts, which are those int() reads
DecimalChars == {"0", "1", "2", "3", "4", "5", "6", "7", "8", "9"}

\* the characters str.isdigit() accepts: the decimal digits and the
\* superscript digits
DigitChars == DecimalChars \cup {"¹", "²", "³"}

\* the characters str.strip() removes: tab, line feed, vertical tab, form
\* feed, carriage return, the separators 1C..1F, space, next line (85) and
\* the no-break space (A0)
WhitespaceChars ==
    {"\t", "\n", "", "\f", "\r", "", "", "", "", " ",
     "", " "}

DigitValue(c) ==
    CASE c = "0" -> 0 [] c = "1" -> 1 [] c = "2" -> 2 [] c = "3" -> 3
      [] c = "4" -> 4 [] c = "5" -> 5 [] c = "6" -> 6 [] c = "7" -> 7
      [] c = "8" -> 8 [] c = "9" -> 9

RECURSIVE LStrip(_)
LStrip(s) ==
    IF s # <<>> /\ Head(s) \in WhitespaceChars THEN LStrip(Tail(s)) ELSE s

RECURSIVE RStrip(_)
RStrip(s) ==
    IF s # <<>> /\ s[Len(s)] \in WhitespaceChars
    THEN RStrip(SubSeq(s, 1, Len(s) - 1)) ELSE s

\* update.message.text.strip()
Strip(s) == RStrip(LStrip(s))

\* str.isdigit(): non-empty and every character a digit
IsDigit(s) == s # <<>> /\ \A i \in 1..Len(s) : s[i] \in DigitChars

\* int(typed_text) raises ValueError: a character of the digit string is no
\* decimal digit
IntRaises(s) == \E i \in 1..Len(s) : s[i] \notin DecimalChars

\* a conversion that reads the last digit only
ToIntOfLastDigit(s) == IF s = <<>> THEN 0 ELSE DigitValue(s[Len(s)])

\* int(typed_text) of a string of decimal digits
RECURSIVE ToInt(_)
ToInt(s) ==
    IF s = <<>> THEN 0
    ELSE 10 * ToInt(SubSeq(s, 1, Len(s) - 1)) + DigitValue(s[Len(s)])

\* the texts users send
Texts ==
    { <<"0">>, <<" ", "1">>, <<"\t", "1", "\n">>, <<"2">>, <<"3">>, <<"J">>,
      <<"J", "o">>, <<"1", "2">>, <<"²">> }

\* the texts of the specifications with concurrent handlers
DialogTexts == { <<" ", "1">>, <<"J", "o">> }

\* ------------------------------------------------- pipeline responses
NoId == <<>>                       \* a missing meeting_id (None)
DetectedName == <<"A", "l">>       \* the name the pipeline searched for
LinkedContactName == <<"B", "o">>  \* the name of the contact it linked

\* one entry of contact_matches of the event of file f, at position i (from 1)
MatchOf(shape, f, i) ==
    CASE shape = "M"  -> [matched |-> TRUE, meeting_id |-> <<f, i>>,
                          searched_name |-> DetectedName, suggestions |-> <<>>,
                          linked_contact |-> [name |-> LinkedContactName]]
      [] shape = "M0" -> [matched |-> TRUE, meeting_id |-> <<f, i>>,
                          searched_name |-> DetectedName, suggestions |-> <<>>]
      [] shape = "U0" -> [matched |-> FALSE, meeting_id |-> <<f, i>>,
                          searched_name |-> DetectedName, suggestions |-> <<>>]
      [] shape = "U2" -> [matched |-> FALSE, meeting_id |-> <<f, i>>,
                          searched_name |-> DetectedName,
                          suggestions |-> <<"c1", "c2">>]
      [] shape = "U6" -> [matched |-> FALSE, meeting_id |-> <<f, i>>,
                          searched_name |-> DetectedName,
                          suggestions |->
                              <<"c1", "c2", "c3", "c4", "c5", "c6">>]

Shapes == {"M", "U0", "U2"}

\* the contact_matches lists over the shapes of shapes
ShapeLists(shapes) == UNION {[1..n -> shapes] : n \in 0..MaxMatches}

\* details.contact_matches of a successful response for file f
MatchesOf(shapes, f) == [i \in 1..Len(shapes) |-> MatchOf(shapes[i], f, i)]

\* the entries of contact_matches that are not matched, in their order
Unmatched(matches) == SelectSeq(matches, LAMBDA match : ~match.matched)

\* what the POST to /process/upload can end in
FastOutcomes == {"success", "failed", "http_error", "exception", "timeout"}

\* what a contact-operation call can end in
CallOutcomes == {"ok", "http_error", "exception"}

\* what the POST to /api/v1/chat can end in
ChatOutcomes == CallOutcomes \cup {"timeout"}

\* what the search can return when it answers 200
SearchResults == { <<>>, <<"s1">> }

\* ------------------------------------------------------ configuration
\* AUDIO_PIPELINE_URL and INTELLIGENCE_SERVICE_URL set or empty, and the
\* allow-list.
Configs ==
    { [pipeline |-> TRUE,  intelligence |-> TRUE,  allowed |-> {}],
      [pipeline |-> FALSE, intelligence |-> TRUE,  allowed |-> {}],
      [pipeline |-> TRUE,  intelligence |-> FALSE, allowed |-> {"u1"}],
      [pipeline |-> TRUE,  intelligence |-> TRUE,  allowed |-> {"u1"}] }

\* is_authorized
IsAuthorized(u) ==
    IF config.allowed = {} THEN TRUE ELSE u \in config.allowed

\* ------------------------------------------------- pending link queue
\* match.get('meeting_id') or (meeting_ids[i] if i < len(meeting_ids) else None)
MeetingIdOf(match, meeting_ids, i) ==
    IF match.meeting_id # NoId THEN match.meeting_id
    ELSE IF i <= Len(meeting_ids) THEN meeting_ids[i] ELSE NoId

\* the pending_links list build_contact_text_prompt collects from position i on
RECURSIVE PendingLinksFrom(_, _, _)
PendingLinksFrom(matches, meeting_ids, i) ==
    IF i > Len(matches) THEN <<>>
    ELSE LET match == matches[i]
             mid  == MeetingIdOf(match, meeting_ids, i)
             rest == PendingLinksFrom(matches, meeting_ids, i + 1)
         IN  IF mid = NoId \/ match.matched THEN rest
             ELSE << [meeting_id    |-> mid,
                      searched_name |-> match.searched_name,
                      suggestions   |-> match.suggestions,
                      mode          |-> "link_or_create"] >> \o rest

\* the "Linked to" lines build_contact_text_prompt collects
LinkedLines(matches, meeting_ids) ==
    Cardinality({i \in 1..Len(matches) :
        MeetingIdOf(matches[i], meeting_ids, i) # NoId /\ matches[i].matched})

Min(a, b) == IF a < b THEN a ELSE b

\* the text prompt of the reference at 0-based position idx of links:
\* the progress marker (<<>> when there is none), the candidates listed,
\* and what the prompt says the reply 0 does
PromptFor(links, idx, marker) ==
    [asks     |-> TRUE,
     progress |-> marker,
     name     |-> links[idx + 1].searched_name,
     shown    |-> Min(Len(links[idx + 1].suggestions), MAX_SHOWN),
     zero     |-> "skip"]

NoPrompt ==
    [asks |-> FALSE, progress |-> <<>>, name |-> <<>>, shown |-> 0,
     zero |-> "none"]

\* pending_contact_creation after build_contact_text_prompt; sid is the
\* arrival number of the ingest event (history, no field of the code)
BuildContactTextPrompt(pcc, matches, meeting_ids, u, sid) ==
    LET links == PendingLinksFrom(matches, meeting_ids, 1)
    IN  IF matches # <<>> /\ links # <<>>
        THEN Put(pcc, u, [pending_links |-> links, current_index |-> 0,
                          sid |-> sid])
        ELSE pcc

\* what build_contact_text_prompt returns: the number of "Linked to" lines
\* and the prompt of the first unmatched contact
ContactTextPrompt(matches, meeting_ids) ==
    LET links == PendingLinksFrom(matches, meeting_ids, 1)
    IN  [linked |-> IF matches = <<>> THEN 0
                    ELSE LinkedLines(matches, meeting_ids),
         first  |-> IF matches # <<>> /\ links # <<>>
                    THEN PromptFor(links, 0,
                            IF Len(links) > 1 THEN <<1, Len(links)>> ELSE <<>>)
                    ELSE NoPrompt]

\* data.get('pending_links', [])
LinksOf(data) ==
    IF "pending_links" \in DOMAIN data THEN data.pending_links ELSE <<>>

\* data.get('current_index', 0)
IndexOf(data) ==
    IF "current_index" \in DOMAIN data THEN data.current_index ELSE 0

\* a lookup that never finds a current contact
NoCurrentContact(pcc, u) == FALSE

\* _get_current_pending_contact returns a contact (not None)
HasCurrentContact(pcc, u) ==
    /\ u \in DOMAIN pcc
    /\ IndexOf(pcc[u]) < Len(LinksOf(pcc[u]))

\* a lookup that always returns the first contact of the session
FirstContact(pcc, u) == LinksOf(pcc[u])[1]

\* the contact _get_current_pending_contact returns
CurrentContact(pcc, u) == LinksOf(pcc[u])[IndexOf(pcc[u]) + 1]

\* pending_contact_creation after _get_current_pending_contact
PendingAfterGet(pcc, u) ==
    IF u \in DOMAIN pcc /\ ~(IndexOf(pcc[u]) < Len(LinksOf(pcc[u])))
    THEN Pop(pcc, u)
    ELSE pcc

\* an advance that keeps the session when the cursor passes the last contact
AdvanceKeepingSession(pcc, u) ==
    IF u \notin DOMAIN pcc THEN pcc
    ELSE [pcc EXCEPT ![u].current_index = IndexOf(pcc[u]) + 1]

\* pending_contact_creation after _advance_to_next_contact
AdvanceToNextContact(pcc, u) ==
    IF u \notin DOMAIN pcc THEN pcc
    ELSE IF IndexOf(pcc[u]) + 1 >= Len(LinksOf(pcc[u])) THEN Pop(pcc, u)
    ELSE [pcc EXCEPT ![u].current_index = IndexOf(pcc[u]) + 1]

\* what _advance_to_next_contact returns
NextContactPrompt(pcc, u) ==
    IF u \notin DOMAIN pcc THEN NoPrompt
    ELSE IF IndexOf(pcc[u]) + 1 >= Len(LinksOf(pcc[u])) THEN NoPrompt
    ELSE PromptFor(LinksOf(pcc[u]), IndexOf(pcc[u]) + 1,
                   <<IndexOf(pcc[u]) + 2, Len(LinksOf(pcc[u]))>>)

\* a clearing that leaves the pending contacts in place
KeepPendingContacts(pcc, u) == pcc

\* a clearing that removes the entry of every user
ClearEverySession(pcc, u) == <<>>

\* _clear_pending_contacts
ClearPendingContacts(pcc, u) == IF u \in DOMAIN pcc THEN Pop(pcc, u) ELSE pcc

\* an update that leaves the current contact as it was
KeepSuggestions(pcc, u, found, typed_name) == pcc

\* an update that replaces the candidates of every contact of the queue
UpdateEverySuggestion(pcc, u, found, typed_name) ==
    IF u \in DOMAIN pcc /\ IndexOf(pcc[u]) < Len(LinksOf(pcc[u]))
    THEN [pcc EXCEPT ![u].pending_links =
            [i \in 1..Len(@) |->
                [@[i] EXCEPT !.suggestions = found,
                             !.searched_name = typed_name]]]
    ELSE pcc

\* the update of the current contact after a search that found contacts
UpdateSuggestions(pcc, u, found, typed_name) ==
    IF u \in DOMAIN pcc /\ IndexOf(pcc[u]) < Len(LinksOf(pcc[u]))
    THEN [pcc EXCEPT
            ![u].pending_links[IndexOf(pcc[u]) + 1].suggestions = found,
            ![u].pending_links[IndexOf(pcc[u]) + 1].searched_name = typed_name]
    ELSE pcc

\* -------------------------------------------- callback action registry
\* a key that ignores the counter
ShortKeyOfPrefix(prefix, n) == <<prefix, 1>>

\* _short_key: the key minted when the counter stands at n
ShortKey(prefix, n) == <<prefix, n + 1>>

\* the number of link buttons of one match
LinkButtons(match) == Min(Len(match.suggestions), MAX_BUTTONS)

\* match.get('linked_contact', {}).get('name', searched_name)
LinkedName(match) ==
    IF "linked_contact" \in DOMAIN match
       /\ "name" \in DOMAIN match.linked_contact
    THEN match.linked_contact.name
    ELSE match.searched_name

\* the keys one iteration of the loop of build_contact_keyboard registers
\* for match, starting from counter n
RowActions(match, mid, n) ==
    IF match.matched
    THEN (ShortKey("R", n) :>
            [meeting_id |-> mid, searched_name |-> match.searched_name,
             current_contact |-> LinkedName(match)])
    ELSE LET k == LinkButtons(match)
         IN  [key \in {ShortKey("L", n + j - 1) : j \in 1..k}
                    \cup {ShortKey("C", n + k), ShortKey("S", n + k + 1)} |->
                CASE key[1] = "L" ->
                        [meeting_id |-> mid,
                         contact_id |-> match.suggestions[key[2] - n],
                         searched_name |-> match.searched_name]
                  [] key[1] = "C" ->
                        [meeting_id |-> mid,
                         searched_name |-> match.searched_name]
                  [] key[1] = "S" -> [meeting_id |-> mid]]

\* the keys RowActions mints
RowKeys(match) == IF match.matched THEN 1 ELSE LinkButtons(match) + 2

\* build_contact_keyboard from position i on: the counter and the registry it
\* leaves, and the number of keyboard rows it built
RECURSIVE BuildContactKeyboard(_, _, _, _, _)
BuildContactKeyboard(matches, meeting_ids, i, n, actions) ==
    IF i > Len(matches) THEN [counter |-> n, actions |-> actions, keys |-> {}]
    ELSE LET match == matches[i]
             mid   == MeetingIdOf(match, meeting_ids, i)
         IN  IF mid = NoId
             THEN BuildContactKeyboard(matches, meeting_ids, i + 1, n, actions)
             ELSE LET row  == RowActions(match, mid, n)
                      rest == BuildContactKeyboard(matches, meeting_ids, i + 1,
                                  n + RowKeys(match),
                                  [key \in DOMAIN actions \cup DOMAIN row |->
                                      IF key \in DOMAIN row THEN row[key]
                                      ELSE actions[key]])
                  IN  [rest EXCEPT !.keys = @ \cup DOMAIN row]

\* the keys a call of build_contact_keyboard mints
RECURSIVE KeysNeeded(_, _, _)
KeysNeeded(matches, meeting_ids, i) ==
    IF i > Len(matches) THEN 0
    ELSE (IF MeetingIdOf(matches[i], meeting_ids, i) = NoId THEN 0
          ELSE RowKeys(matches[i]))
         + KeysNeeded(matches, meeting_ids, i + 1)

\* ------------------------------------------------------------ handlers
\* A handler coroutine: where it is suspended (pc), the update it handles,
\* its local variables, and a record of what it did (the collaborator calls
\* it issued, the replies it sent, and the messages whose send raised).
\* A call of the Telegram API may raise where the code catches the
\* exception: inside a try. The sends outside every try and those of the
\* except clauses themselves go through.
Idle ==
    [pc |-> "idle", kind |-> "none", user |-> "", file |-> 0, text |-> <<>>,
     token |-> <<>>, seq |-> 0, dup |-> FALSE, fast |-> "none",
     fast_requests |-> 0, drive_writes |-> 0, stored |-> "none",
     outcomes |-> <<>>, cleared |-> FALSE, queued |-> 0, unmatched |-> <<>>,
     search |-> "none", found |-> <<>>, result |-> "none",
     meeting_id |-> NoId, suggestions |-> <<>>, route |-> "none",
     sid0 |-> 0, idx0 |-> 0, n0 |-> 0, had_session |-> FALSE,
     had_state |-> FALSE, was_pressed |-> FALSE, calls |-> <<>>, replies |-> <<>>,
     unsent |-> <<>>, body |-> <<>>]

\* a message sent to the user: its kind, the contact prompt it carries, and
\* for a reply of the chat its text
Reply(kind, prompt, linked) ==
    [kind |-> kind, prompt |-> prompt, linked |-> linked, text |-> <<>>]

Say(kind) == Reply(kind, NoPrompt, 0)

\* a request to the intelligence service
Call(op, meeting_id, contact, name) ==
    [op |-> op, meeting_id |-> meeting_id, contact |-> contact, name |-> name,
     history |-> <<>>]

\* task t is the first free slot: a new handler starts there
Free(t) ==
    /\ tasks[t].pc = "idle"
    /\ \A x \in TaskIds : x < t => tasks[x].pc # "idle"

\* the handler of task t is suspended at an await, as me
Suspend(t, me) ==
    /\ tasks' = [tasks EXCEPT ![t] = me]
    /\ finished' = Idle

\* the handler of task t returns, having run as me
Return(t, me) ==
    /\ tasks' = [tasks EXCEPT ![t] = Idle]
    /\ finished' = [me EXCEPT !.pc = "done"]

\* how the delivery of the result of a successful fast path can end: both
\* messages sent, the result message raising, or the contact prompt raising
Deliveries == {"ok", "result_failed", "prompt_failed"}

\* how the part of an ingest handler before the POST can end: the file is
\* downloaded and the status message edited, get_file or download_to_memory
\* raises, or the edit to "Transcribing and analyzing" raises
Fetches == {"ok", "download_failed", "status_failed"}

\* how the status messages of the fallback can end: both edits go through,
\* the edit to "Uploading to Google Drive" raises, or the edit to "Audio
\* uploaded to Drive" raises
Reports == {"ok", "start_failed", "report_failed"}

\* handler me sends reply inside a try: the send goes through, or it raises
\* and the except clause of the try sends the message apology instead
Caught(me, reply, sent, apology) ==
    IF sent THEN [me EXCEPT !.replies = Append(@, reply)]
    ELSE [me EXCEPT !.unsent = Append(@, reply),
                    !.replies = Append(@, Say(apology))]

\* no sighting yet
Never == 0 - 1

\* the fast path did not end at the return of its success branch: control
\* reaches the upload to Google Drive
FallsBack(out, delivery) == out # "success" \/ delivery # "ok"

\* the POSTs to /process/upload a handler issues: one inside
\* `if AUDIO_PIPELINE_URL`, none without the URL
FastPathRequests(cfg) == IF cfg.pipeline THEN 1 ELSE 0

Init ==
    /\ recently_processed_files = <<>>
    /\ pending_contact_actions = <<>>
    /\ pending_contact_creation = <<>>
    /\ conversation_history = <<>>
    /\ callback_counter = 0
    /\ config \in Configs
    /\ now = 0
    /\ tasks = [t \in TaskIds |-> Idle]
    /\ finished = Idle
    /\ ingest_seq = 0
    /\ latest = [u \in Users |-> 0]
    /\ acks = [u \in Users |-> 0]
    /\ pressed = {}
    /\ sighting = [f \in Files |-> Never]
    /\ last_seen = [file |-> 0, at |-> 0, prior |-> Never, result |-> FALSE,
                    expected |-> FALSE]

\* handle_voice / handle_audio up to the POST to the pipeline: authorization,
\* deduplication, clearing of the pending contacts, and the download of the
\* file, which ends as fetch
IngestStart(t, kind, u, f, fetch) ==
    /\ Free(t)
    /\ fetch # "ok" =>
          /\ IsAuthorized(u)
          /\ ~IsDuplicateFile(recently_processed_files, f, now)
    /\ fetch = "status_failed" => config.pipeline
    /\ LET me == [Idle EXCEPT !.kind = kind, !.user = u, !.file = f]
       IN  IF ~IsAuthorized(u)
           THEN /\ Return(t, [me EXCEPT !.replies = <<Say("unauthorized")>>])
                /\ UNCHANGED <<recently_processed_files,
                               pending_contact_creation, ingest_seq, latest>>
           ELSE IF IsDuplicateFile(recently_processed_files, f, now)
           THEN /\ recently_processed_files' =
                        FilesAfterCheck(recently_processed_files, f, now)
                /\ Return(t, [me EXCEPT !.dup = TRUE])
                /\ UNCHANGED <<pending_contact_creation, ingest_seq, latest>>
           ELSE /\ recently_processed_files' =
                        FilesAfterCheck(recently_processed_files, f, now)
                /\ pending_contact_creation' =
                        ClearPendingContacts(pending_contact_creation, u)
                /\ ingest_seq' = ingest_seq + 1
                /\ latest' = [latest EXCEPT ![u] = ingest_seq + 1]
                /\ LET her == [me EXCEPT
                              !.seq = ingest_seq + 1,
                              !.cleared = u \in DOMAIN pending_contact_creation]
                   IN  IF fetch = "download_failed"
                       THEN \* the outer except reports the error
                            Return(t, [her EXCEPT
                                !.unsent = <<Say("download")>>,
                                !.outcomes = <<"error">>])
                       ELSE IF fetch = "status_failed"
                       THEN \* the inner except falls through to the upload
                            Suspend(t, [her EXCEPT
                                !.unsent = <<Say("transcribing")>>,
                                !.pc = "fallback"])
                       ELSE Suspend(t, [her EXCEPT
                                !.pc = IF config.pipeline THEN "await_pipeline"
                                       ELSE "fallback",
                                !.fast_requests = FastPathRequests(config)])
    /\ UNCHANGED <<pending_contact_actions, conversation_history,
                   callback_counter, config, now, acks, pressed, sighting, last_seen>>

\* handle_voice
VoiceStart(t, u, f, fetch) == IngestStart(t, "voice", u, f, fetch)

\* handle_audio
AudioStart(t, u, f, fetch) == IngestStart(t, "audio", u, f, fetch)

\* handle_voice from the response of the pipeline on: the fast path ended
\* in out; on success the result holds the contact_matches of shapes and its
\* delivery to the user ends as delivery
VoiceFastPath(t, out, shapes, delivery) ==
    LET me      == tasks[t]
        matches == MatchesOf(shapes, me.file)
        prompt  == ContactTextPrompt(matches, <<>>)
        asked   == prompt.linked > 0 \/ prompt.first.asks
        after   == [me EXCEPT
                      !.fast = out,
                      !.pc = "fallback",
                      !.queued = IF out = "success"
                                 THEN Len(PendingLinksFrom(matches, <<>>, 1))
                                 ELSE 0,
                      !.unmatched = Unmatched(matches),
                      !.outcomes = IF out = "success" /\ delivery # "result_failed"
                                   THEN Append(@, "completed") ELSE @,
                      !.unsent = IF delivery = "result_failed"
                                 THEN Append(@, Say("completed"))
                                 ELSE IF delivery = "prompt_failed"
                                 THEN Append(@, Reply("contact_prompt",
                                                prompt.first, prompt.linked))
                                 ELSE @,
                      !.replies = IF out = "success" /\ delivery = "ok" /\ asked
                                  THEN Append(@, Reply("contact_prompt",
                                                 prompt.first, prompt.linked))
                                  ELSE @]
    IN
    /\ me.pc = "await_pipeline"
    /\ me.kind = "voice"
    /\ out # "success" => shapes = <<>> /\ delivery = "ok"
    /\ delivery = "prompt_failed" => asked
    /\ IF out = "success"
       THEN /\ pending_contact_creation' =
                  BuildContactTextPrompt(pending_contact_creation, matches,
                                         <<>>, me.user, me.seq)
            /\ acks' = IF prompt.first.asks THEN [acks EXCEPT ![me.user] = 0]
                       ELSE acks
       ELSE UNCHANGED <<pending_contact_creation, acks>>
    /\ IF FallsBack(out, delivery) THEN Suspend(t, after) ELSE Return(t, after)
    /\ UNCHANGED <<recently_processed_files, pending_contact_actions,
                   conversation_history, callback_counter, config, now,
                   ingest_seq, latest, pressed, sighting, last_seen>>

\* handle_audio from the response of the pipeline on: as VoiceFastPath, with
\* the inline keyboard in place of the text prompt
AudioFastPath(t, out, shapes, delivery) ==
    LET me      == tasks[t]
        matches == MatchesOf(shapes, me.file)
        built   == IF matches = <<>>
                   THEN [counter |-> callback_counter,
                         actions |-> pending_contact_actions, keys |-> {}]
                   ELSE BuildContactKeyboard(matches, <<>>, 1,
                            callback_counter, pending_contact_actions)
        after   == [me EXCEPT
                      !.fast = out,
                      !.pc = "fallback",
                      !.unmatched = Unmatched(matches),
                      !.outcomes = IF out = "success" /\ delivery = "ok"
                                   THEN Append(@, "completed") ELSE @,
                      !.unsent = IF delivery = "result_failed"
                                 THEN Append(@, Say("completed")) ELSE @,
                      !.replies = IF out = "success" /\ delivery = "ok"
                                     /\ built.keys # {}
                                  THEN Append(@, Say("keyboard")) ELSE @]
    IN
    /\ me.pc = "await_pipeline"
    /\ me.kind = "audio"
    /\ out # "success" => shapes = <<>> /\ delivery = "ok"
    /\ delivery # "prompt_failed"
    /\ callback_counter + KeysNeeded(matches, <<>>, 1) <= MaxCounter
    /\ IF out = "success"
       THEN /\ pending_contact_actions' = built.actions
            /\ callback_counter' = built.counter
       ELSE UNCHANGED <<pending_contact_actions, callback_counter>>
    /\ IF FallsBack(out, delivery) THEN Suspend(t, after) ELSE Return(t, after)
    /\ UNCHANGED <<recently_processed_files, pending_contact_creation,
                   conversation_history, config, now, ingest_seq, latest,
                   acks, pressed, sighting, last_seen>>

\* a fallback that reports the upload as accepted whether or not it raised
FallbackOutcomeSwallowed(stored) == "deferred"

\* how the fallback ends: the "uploaded to Drive" message, or the error
\* message of the outer except
FallbackOutcome(stored) == IF stored THEN "deferred" ELSE "error"

\* handle_voice / handle_audio, the fallback: the upload to Google Drive
\* succeeds or raises, and the status messages around it end as report; an
\* edit that raises takes the handler to the outer except, before the upload
\* or after it
IngestFallback(t, stored, report) ==
    LET me == tasks[t]
    IN
    /\ me.pc = "fallback"
    /\ report # "ok" => stored
    /\ IF report = "start_failed"
       THEN Return(t, [me EXCEPT
                    !.unsent = Append(@, Say("uploading")),
                    !.outcomes = Append(@, "error")])
       ELSE IF report = "report_failed"
       THEN Return(t, [me EXCEPT
                    !.drive_writes = @ + 1,
                    !.stored = "ok",
                    !.unsent = Append(@, Say("deferred")),
                    !.outcomes = Append(@, "error")])
       ELSE Return(t, [me EXCEPT
                    !.drive_writes = @ + 1,
                    !.stored = IF stored THEN "ok" ELSE "failed",
                    !.outcomes = Append(@, FallbackOutcome(stored))])
    /\ UNCHANGED <<recently_processed_files, pending_contact_actions,
                   pending_contact_creation, conversation_history,
                   callback_counter, config, now, ingest_seq, latest, acks,
                   pressed, sighting, last_seen>>

\* ------------------------------------------------- conversation history
MAX_HISTORY_PER_USER == 20
MAX_HISTORY_AGE_HOURS == 24

\* seq[-n:]
LastN(seq, n) ==
    IF Len(seq) <= n THEN seq ELSE SubSeq(seq, Len(seq) - n + 1, Len(seq))

\* a reading that hands over everything recorded for the user
GetWholeHistory(history, u, t) ==
    IF u \in DOMAIN history
    THEN [i \in 1..Len(history[u]) |->
             [role |-> history[u][i].role, content |-> history[u][i].content]]
    ELSE <<>>

\* _get_conversation_history
GetConversationHistory(history, u, t) ==
    IF u \notin DOMAIN history THEN <<>>
    ELSE LET cutoff == t - MAX_HISTORY_AGE_HOURS * 3600
             fresh  == SelectSeq(history[u], LAMBDA msg : msg.timestamp > cutoff)
             kept   == LastN(fresh, MAX_HISTORY_PER_USER)
         IN  [i \in 1..Len(kept) |->
                 [role |-> kept[i].role, content |-> kept[i].content]]

\* a recording that cuts the list as soon as it is longer than 20 messages
CutAtTwenty(history, u, role, content, t) ==
    LET old   == IF u \in DOMAIN history THEN history[u] ELSE <<>>
        added == Append(old, [role |-> role, content |-> content,
                              timestamp |-> t])
    IN  Put(history, u, LastN(added, MAX_HISTORY_PER_USER))

\* _add_to_conversation_history
AddToConversationHistory(history, u, role, content, t) ==
    LET old   == IF u \in DOMAIN history THEN history[u] ELSE <<>>
        added == Append(old, [role |-> role, content |-> content,
                              timestamp |-> t])
    IN  Put(history, u,
            IF Len(added) > MAX_HISTORY_PER_USER * 2
            THEN LastN(added, MAX_HISTORY_PER_USER) ELSE added)

\* len(conversation_history.get(user_id, []))
HistoryLen(history, u) == IF u \in DOMAIN history THEN Len(history[u]) ELSE 0

\* the longest text one message of the chat reply carries
MAX_MESSAGE == 4000

\* a reply of the chat endpoint
AiResponse == <<"o", "k">>

\* a reply of the chat endpoint of exactly 4000 characters
LongResponse == [i \in 1..MAX_MESSAGE |-> "x"]

\* the text `result.get("response", ...)` yields for a body without the key
DefaultResponse ==
    <<"S", "o", "r", "r", "y", ",", " ", "I", " ", "c", "o", "u", "l", "d",
      "n", "'", "t", " ", "p", "r", "o", "c", "e", "s", "s", " ", "t", "h",
      "a", "t", ".">>

\* the body of a 200 response the handlers of the contact dialog meet
ShortResult == [response |-> AiResponse, tools_used |-> <<>>]

\* the bodies of the 200 responses of the chat endpoint: a short reply, a
\* reply of 4000 characters without and with tools, and bodies that lack
\* a key
ChatResults ==
    { ShortResult,
      [response |-> LongResponse, tools_used |-> <<>>],
      [response |-> LongResponse,
       tools_used |-> << <<"d", "b">>, <<"w", "e", "b">> >>],
      [tools_used |-> << <<"d", "b">> >>],
      [response |-> AiResponse] }

\* ', '.join(tools_used)
RECURSIVE Join(_)
Join(names) ==
    IF names = <<>> THEN <<>>
    ELSE IF Len(names) = 1 THEN names[1]
    ELSE names[1] \o <<",", " ">> \o Join(Tail(names))

\* the f-string of line 947; the element "chart" is the one character
\* U+1F4CA
QueriedSuffix(tools) ==
    <<"\n", "\n", "_", "chart", " ", "Q", "u", "e", "r", "i", "e", "d", ":",
      " ">> \o Join(tools) \o <<"_">>

\* result.get("response", "Sorry, I couldn't process that.")
ResponseOf(result) ==
    IF "response" \in DOMAIN result THEN result.response ELSE DefaultResponse

\* result.get("tools_used", [])
ToolsUsedOf(result) ==
    IF "tools_used" \in DOMAIN result THEN result.tools_used ELSE <<>>

\* ai_response as it is sent: with the indicator when tools were used
ResponseSent(result) ==
    IF ToolsUsedOf(result) # <<>>
    THEN ResponseOf(result) \o QueriedSuffix(ToolsUsedOf(result))
    ELSE ResponseOf(result)

\* the texts of the reply_text calls of lines 950-958: the text in pieces
\* of 4000 characters when it is longer than that, else the text
Chunks(text) ==
    IF Len(text) > MAX_MESSAGE
    THEN [k \in 1..((Len(text) + MAX_MESSAGE - 1) \div MAX_MESSAGE) |->
             SubSeq(text, (k - 1) * MAX_MESSAGE + 1,
                    IF k * MAX_MESSAGE < Len(text) THEN k * MAX_MESSAGE
                    ELSE Len(text))]
    ELSE <<text>>

\* one message of the reply of the chat
ChatReply(text) == [Reply("ai_response", NoPrompt, 0) EXCEPT !.text = text]

\* ---------------------------------------------------------- text router
\* a PendingSession (a queue of references with a cursor) is stored for u
IsSession(pcc, u) == u \in DOMAIN pcc /\ "pending_links" \in DOMAIN pcc[u]

\* a reading of the reply that knows no skip token
NeverSkip(typed) == FALSE

\* typed_text == '0'
IsSkip(typed) == typed = <<"0">>

\* not typed_name or len(typed_name) < 2
TooShort(typed) == Len(typed) < 2

\* the reply after a resolution: the acknowledgement with the next prompt
Resolved(kind, pcc, u) == Reply(kind, NextContactPrompt(pcc, u), 0)

\* a handler that takes INTELLIGENCE_SERVICE_URL for set
HasServiceAlways(cfg) == TRUE

\* `if not INTELLIGENCE_SERVICE_URL` of the text handlers
HasService(cfg) == cfg.intelligence

\* handle_text_message up to its first await: the routing, and for a reply
\* to a contact prompt the part of _handle_contact_linking before the
\* request to the intelligence service; sent tells whether the send of the
\* "not configured" message inside the try of the name branch went through
TextStart(t, u, txt, sent) ==
    LET pcc   == pending_contact_creation
        me    == [Idle EXCEPT !.kind = "text", !.user = u, !.text = txt,
                              !.had_session = IsSession(pcc, u),
                              !.had_state = u \in DOMAIN pcc
                                            /\ ~IsSession(pcc, u)]
        typed == Strip(txt)
    IN
    /\ Free(t)
    /\ ~sent =>
          /\ IsAuthorized(u)
          /\ HasCurrentContact(pcc, u)
          /\ ~IsSkip(typed)
          /\ ~(IsDigit(typed) /\ CurrentContact(pcc, u).suggestions # <<>>)
          /\ ~TooShort(typed)
          /\ ~config.intelligence
    /\ IF ~IsAuthorized(u)
       THEN /\ Return(t, [me EXCEPT !.replies = <<Say("unauthorized")>>])
            /\ UNCHANGED <<pending_contact_creation, acks>>
       ELSE IF ~HasCurrentContact(pcc, u)
       THEN \* _handle_ai_chat
            /\ pending_contact_creation' = PendingAfterGet(pcc, u)
            /\ UNCHANGED acks
            /\ IF ~HasService(config)
               THEN Return(t, [me EXCEPT !.route = "chat",
                                         !.replies = <<Say("send_voice_hint")>>])
               ELSE Suspend(t, [me EXCEPT !.route = "chat",
                                          !.pc = "await_typing"])
       ELSE \* _handle_contact_linking
            LET cur == CurrentContact(pcc, u)
                her == [me EXCEPT !.route = "dialog",
                                  !.meeting_id = cur.meeting_id,
                                  !.suggestions = cur.suggestions,
                                  !.sid0 = pcc[u].sid,
                                  !.idx0 = IndexOf(pcc[u]),
                                  !.n0 = Len(LinksOf(pcc[u]))]
            IN  IF IsSkip(typed)
                THEN /\ pending_contact_creation' = AdvanceToNextContact(pcc, u)
                     /\ acks' = [acks EXCEPT ![u] = @ + 1]
                     /\ Return(t, [her EXCEPT !.replies =
                                      <<Resolved("skipped", pcc, u)>>])
                ELSE /\ UNCHANGED <<pending_contact_creation, acks>>
                     /\ IF IsDigit(typed) /\ cur.suggestions # <<>>
                        THEN IF IntRaises(typed)
                             THEN \* the ValueError leaves the handler
                                  Return(t, her)
                             ELSE
                             IF 1 <= ToInt(typed)
                                /\ ToInt(typed) <= Len(cur.suggestions)
                             THEN IF ~HasService(config)
                                  THEN Return(t, [her EXCEPT !.replies =
                                            <<Say("not_configured")>>])
                                  ELSE Suspend(t, [her EXCEPT
                                            !.pc = "await_link",
                                            !.calls = <<Call("link",
                                                cur.meeting_id,
                                                cur.suggestions[ToInt(typed)],
                                                <<>>)>>])
                             ELSE Return(t, [her EXCEPT !.replies =
                                            <<Say("invalid_selection")>>])
                        ELSE IF TooShort(typed)
                        THEN Return(t, [her EXCEPT !.replies =
                                            <<Say("invalid_name")>>])
                        ELSE IF ~HasService(config)
                        THEN Return(t, Caught(her, Say("not_configured"),
                                              sent, "error"))
                        ELSE Suspend(t, [her EXCEPT
                                  !.pc = "await_search",
                                  !.calls = <<Call("search", NoId, "", typed)>>])
    /\ UNCHANGED <<recently_processed_files, pending_contact_actions,
                   conversation_history, callback_counter, config, now,
                   ingest_seq, latest, pressed, sighting, last_seen>>

\* a handler that takes every answer of the service for a success
AcceptedWhenAnswered(out) == out # "exception"

\* `if response.status_code == 200` after the PATCH link-contact and the
\* POST contacts
Accepted(out) == out = "ok"

\* _handle_contact_linking after the PATCH link-contact ended in out; sent
\* tells whether the send of the reply inside the try went through
LinkReturn(t, out, sent) ==
    LET me  == [tasks[t] EXCEPT !.result = out]
        pcc == pending_contact_creation
    IN
    /\ me.pc = "await_link"
    /\ out \notin {"ok", "http_error"} => sent
    /\ IF Accepted(out)
       THEN /\ pending_contact_creation' = AdvanceToNextContact(pcc, me.user)
            /\ acks' = [acks EXCEPT ![me.user] = @ + 1]
            /\ Return(t, Caught(me, Resolved("linked", pcc, me.user),
                                sent, "error"))
       ELSE /\ Return(t, IF out = "http_error"
                         THEN Caught(me, Say("link_failed"), sent, "error")
                         ELSE [me EXCEPT !.replies = <<Say("error")>>])
            /\ UNCHANGED <<pending_contact_creation, acks>>
    /\ UNCHANGED <<recently_processed_files, pending_contact_actions,
                   conversation_history, callback_counter, config, now,
                   ingest_seq, latest, pressed, sighting, last_seen>>

\* _handle_contact_linking after the GET contacts/search ended in out, with
\* the contacts found when it answered 200; sent tells whether the send of
\* the "Found existing contacts" prompt inside the try went through
SearchReturn(t, out, found, sent) ==
    LET me       == [tasks[t] EXCEPT !.search = out, !.found = found]
        pcc      == pending_contact_creation
        typed    == Strip(me.text)
        existing == IF out = "ok" THEN found ELSE <<>>
    IN
    /\ tasks[t].pc = "await_search"
    /\ out # "ok" => found = <<>>
    /\ existing = <<>> => sent
    /\ IF out = "exception"
       THEN /\ Return(t, [me EXCEPT !.replies = <<Say("error")>>])
            /\ UNCHANGED pending_contact_creation
       ELSE IF existing # <<>>
       THEN /\ pending_contact_creation' =
                  UpdateSuggestions(pcc, me.user, existing, typed)
            /\ Return(t, Caught(me,
                  Reply("found", [asks |-> TRUE, progress |-> <<>>,
                                  name |-> typed,
                                  shown |-> Min(Len(existing), MAX_SHOWN),
                                  zero |-> "create"],
                        0),
                  sent, "error"))
       ELSE /\ Suspend(t, [me EXCEPT
                  !.pc = "await_create",
                  !.calls = Append(@, Call("create", me.meeting_id, "", typed))])
            /\ UNCHANGED pending_contact_creation
    /\ UNCHANGED <<recently_processed_files, pending_contact_actions,
                   conversation_history, callback_counter, config, now,
                   ingest_seq, latest, acks, pressed, sighting, last_seen>>

\* _handle_contact_linking after the POST contacts ended in out; sent tells
\* whether the send of the reply inside the try went through
CreateReturn(t, out, sent) ==
    LET me  == [tasks[t] EXCEPT !.result = out]
        pcc == pending_contact_creation
    IN
    /\ me.pc = "await_create"
    /\ out \notin {"ok", "http_error"} => sent
    /\ IF Accepted(out)
       THEN /\ pending_contact_creation' = AdvanceToNextContact(pcc, me.user)
            /\ acks' = [acks EXCEPT ![me.user] = @ + 1]
            /\ Return(t, Caught(me, Resolved("created", pcc, me.user),
                                sent, "error"))
       ELSE /\ Return(t, IF out = "http_error"
                         THEN Caught(me, Say("create_failed"), sent, "error")
                         ELSE [me EXCEPT !.replies = <<Say("error")>>])
            /\ UNCHANGED <<pending_contact_creation, acks>>
    /\ UNCHANGED <<recently_processed_files, pending_contact_actions,
                   conversation_history, callback_counter, config, now,
                   ingest_seq, latest, pressed, sighting, last_seen>>

\* _handle_ai_chat after the typing indicator was sent: the history is read
\* and the POST chat is issued
ChatRequest(t) ==
    LET me == tasks[t]
    IN
    /\ me.pc = "await_typing"
    /\ Suspend(t, [me EXCEPT
          !.pc = "await_chat",
          !.calls = <<[Call("chat", NoId, "", Strip(me.text)) EXCEPT
                          !.history = GetConversationHistory(
                                          conversation_history, me.user, now)]>>])
    /\ UNCHANGED <<recently_processed_files, pending_contact_actions,
                   pending_contact_creation, conversation_history,
                   callback_counter, config, now, ingest_seq, latest, acks,
                   pressed, sighting, last_seen>>

\* _handle_ai_chat after the POST chat ended in out, with body result when
\* it ended in 200; failing is the position of the reply_text inside the
\* try that raises, 0 when none does
ChatReturn(t, out, result, failing) ==
    LET me       == tasks[t]
        texts    == Chunks(ResponseSent(result))
        messages == CASE out = "ok" ->
                            [k \in 1..Len(texts) |-> ChatReply(texts[k])]
                      [] out = "http_error" -> <<Say("chat_failed")>>
                      [] OTHER -> <<>>
        last     == CASE failing # 0 -> <<Say("chat_error")>>
                      [] out = "timeout" -> <<Say("chat_timeout")>>
                      [] out = "exception" -> <<Say("chat_error")>>
                      [] OTHER -> <<>>
        her      == [me EXCEPT
                        !.result = out,
                        !.body = IF out = "ok" THEN result ELSE <<>>,
                        !.replies = (IF failing = 0 THEN messages
                                     ELSE SubSeq(messages, 1, failing - 1))
                                    \o last,
                        !.unsent = IF failing = 0 THEN <<>>
                                   ELSE <<messages[failing]>>]
    IN
    /\ me.pc = "await_chat"
    /\ failing <= Len(messages)
    /\ IF out = "ok"
       THEN conversation_history' =
                AddToConversationHistory(
                    AddToConversationHistory(conversation_history, me.user,
                                             "user", Strip(me.text), now),
                    me.user, "assistant", ResponseOf(result), now)
       ELSE UNCHANGED conversation_history
    /\ Return(t, her)
    /\ UNCHANGED <<recently_processed_files, pending_contact_actions,
                   pending_contact_creation, callback_counter, config, now,
                   ingest_seq, latest, acks, pressed, sighting, last_seen>>

\* a /cancel that leaves the entry of the user in place
CancelNothing(pcc, u) == pcc

\* `pending_contact_creation.pop(user_id, None)` of cancel_command
CancelPending(pcc, u) == Pop(pcc, u)

\* cancel_command
Cancel(t, u) ==
    LET me == [Idle EXCEPT !.kind = "cancel", !.user = u,
                  !.had_session = IsSession(pending_contact_creation, u),
                  !.had_state = u \in DOMAIN pending_contact_creation
                                /\ ~IsSession(pending_contact_creation, u)]
    IN
    /\ Free(t)
    /\ IF u \in DOMAIN pending_contact_creation
       THEN /\ pending_contact_creation' =
                  CancelPending(pending_contact_creation, u)
            /\ Return(t, [me EXCEPT !.replies = <<Say("cancelled")>>])
       ELSE /\ UNCHANGED pending_contact_creation
            /\ Return(t, [me EXCEPT !.replies = <<Say("nothing_to_cancel")>>])
    /\ UNCHANGED <<recently_processed_files, pending_contact_actions,
                   conversation_history, callback_counter, config, now,
                   ingest_seq, latest, acks, pressed, sighting, last_seen>>

\* ------------------------------------------------------ button presses
\* the state handle_create_contact and handle_correct_contact store
CreationState(data, mode, t) ==
    IF mode = "correct"
    THEN [meeting_id |-> data.meeting_id, suggested_name |-> data.searched_name,
          mode |-> "correct", expires |-> t + 300]
    ELSE [meeting_id |-> data.meeting_id, suggested_name |-> data.searched_name,
          expires |-> t + 300]

\* handle_callback_query after query.answer(): the lookup of the key and the
\* handler of its kind up to the first await after which it touches the
\* registry again; sent tells whether the send of the "not configured"
\* message inside the try of handle_link_contact went through
CallbackStart(t, u, key, sent) ==
    LET pca     == pending_contact_actions
        present == key \in DOMAIN pca
        me      == [Idle EXCEPT !.kind = "callback", !.user = u, !.token = key,
                       !.was_pressed = key \in pressed,
                       !.had_session = IsSession(pending_contact_creation, u)]
        expired == [me EXCEPT !.replies = <<Say("expired")>>]
    IN
    /\ Free(t)
    /\ ~sent => key[1] = "L" /\ present /\ ~config.intelligence
    /\ IF key[1] = "S"
       THEN /\ Suspend(t, [me EXCEPT !.pc = "skip_cleanup",
                                     !.replies = <<Say("skipped_linking")>>])
            /\ UNCHANGED <<pending_contact_creation, pressed>>
       ELSE IF ~present
       THEN /\ Return(t, expired)
            /\ pressed' = pressed \cup {key}
            /\ UNCHANGED pending_contact_creation
       ELSE IF key[1] = "L"
       THEN /\ UNCHANGED <<pending_contact_creation, pressed>>
            /\ IF ~config.intelligence
               THEN Suspend(t, [Caught(me, Say("not_configured"), sent,
                                       "error")
                                   EXCEPT !.pc = "link_finally"])
               ELSE Suspend(t, [me EXCEPT
                        !.pc = "await_press_link",
                        !.calls = <<Call("link", pca[key].meeting_id,
                                         pca[key].contact_id, <<>>)>>])
       ELSE /\ pending_contact_creation' =
                  Put(pending_contact_creation, u,
                      CreationState(pca[key],
                          IF key[1] = "R" THEN "correct" ELSE "create", now))
            /\ Suspend(t, [me EXCEPT
                  !.pc = IF key[1] = "R" THEN "correct_cleanup"
                         ELSE "create_cleanup",
                  !.replies = <<Say("type_name")>>])
            /\ UNCHANGED pressed
    /\ UNCHANGED <<recently_processed_files, pending_contact_actions,
                   conversation_history, callback_counter, config, now,
                   ingest_seq, latest, acks, sighting, last_seen>>

\* a cleanup that leaves the key registered
KeepAction(pca, key) == pca

\* pending_contact_actions.pop(callback_data, None)
PopAction(pca, key) == Pop(pca, key)

\* the handler of a press at pc sends replies, or the error message when
\* the send raised, removes its key and returns
PressCleanup(t, pc, replies, sent) ==
    LET me == tasks[t]
    IN
    /\ me.pc = pc
    /\ pending_contact_actions' = PopAction(pending_contact_actions, me.token)
    /\ pressed' = pressed \cup {me.token}
    /\ Return(t, IF replies = <<>> THEN me
                 ELSE Caught(me, replies[1], sent, "error"))
    /\ UNCHANGED <<recently_processed_files, pending_contact_creation,
                   conversation_history, callback_counter, config, now,
                   ingest_seq, latest, acks, sighting, last_seen>>

\* handle_link_contact after the PATCH link-contact ended in out; sent
\* tells whether the sends inside the try went through
PressLinkReturn(t, out, sent) ==
    /\ out \notin {"ok", "http_error"} => sent
    /\ PressCleanup(t, "await_press_link",
          <<Say(IF out = "ok" THEN "linked"
                ELSE IF out = "http_error" THEN "link_failed" ELSE "error")>>,
          sent)

\* handle_link_contact without a service URL: the finally clause
PressLinkFinally(t) == PressCleanup(t, "link_finally", <<>>, TRUE)

\* handle_create_contact after its prompt was sent
PressCreateCleanup(t) == PressCleanup(t, "create_cleanup", <<>>, TRUE)

\* handle_correct_contact after its prompt was sent
PressCorrectCleanup(t) == PressCleanup(t, "correct_cleanup", <<>>, TRUE)

\* handle_callback_query, the skip branch after its messages were sent
PressSkipCleanup(t) == PressCleanup(t, "skip_cleanup", <<>>, TRUE)

\* the keys that were minted: those still registered and those pressed
MintedKeys == DOMAIN pending_contact_actions \cup pressed

\* ---------------------------------------------------------------- time
\* time passes
Tick ==
    /\ now + TickStep <= MaxNow
    /\ now' = now + TickStep
    /\ UNCHANGED <<recently_processed_files, pending_contact_actions,
                   pending_contact_creation, conversation_history,
                   callback_counter, config, tasks, finished, ingest_seq,
                   latest, acks, pressed, sighting, last_seen>>

\* more than a day passes
LongTick ==
    /\ now + LongStep <= MaxLongNow
    /\ now' = now + LongStep
    /\ UNCHANGED <<recently_processed_files, pending_contact_actions,
                   pending_contact_creation, conversation_history,
                   callback_counter, config, tasks, finished, ingest_seq,
                   latest, acks, pressed, sighting, last_seen>>

\* a call of _is_duplicate_file(f); sighting and last_seen.expected follow the
\* contract of seen(id): false and recorded at a first sighting, true within
\* the window of the recorded sighting, false and recorded anew after it
SeenCall(f) ==
    LET fresh == sighting[f] = Never \/ now - sighting[f] > DEDUP_TTL
    IN
    /\ recently_processed_files' =
          FilesAfterCheck(recently_processed_files, f, now)
    /\ sighting' = IF fresh THEN [sighting EXCEPT ![f] = now] ELSE sighting
    /\ last_seen' = [file |-> f, at |-> now, prior |-> sighting[f],
                     result |-> IsDuplicateFile(recently_processed_files, f, now),
                     expected |-> ~fresh]
    /\ UNCHANGED <<pending_contact_actions, pending_contact_creation,
                   conversation_history, callback_counter, config, now, tasks,
                   finished, ingest_seq, latest, acks, pressed>>

\* ------------------------------------------------------ specifications
\* the fingerprint cache alone, under a clock
NextSeen == (\E f \in Files : SeenCall(f)) \/ Tick

SpecSeen == Init /\ [][NextSeen]_vars

\* the ingest handlers of the users of us: events of the kinds of kinds,
\* fast-path outcomes of outs, contact matches of the shapes of shapes; at
\* most n handlers are in flight, and the files are numbered in the order of
\* their first delivery; the calls of the Telegram API end as fetches and
\* reports allow
IngestWith(us, kinds, outs, shapes, fetches, reports, n) ==
    \/ \E t \in TaskIds, u \in us, f \in Files, kind \in kinds,
          fetch \in fetches :
          /\ Cardinality({x \in TaskIds : tasks[x].pc # "idle"}) < n
          /\ f <= ingest_seq + 1
          /\ IF kind = "voice" THEN VoiceStart(t, u, f, fetch)
             ELSE AudioStart(t, u, f, fetch)
    \/ \E t \in TaskIds, out \in outs, list \in ShapeLists(shapes),
          delivery \in Deliveries :
          IF tasks[t].kind = "voice"
          THEN VoiceFastPath(t, out, list, delivery)
          ELSE AudioFastPath(t, out, list, delivery)
    \/ \E t \in TaskIds, stored \in BOOLEAN, report \in reports :
          IngestFallback(t, stored, report)

\* the ingest handlers, with every way the calls of the Telegram API can end
Ingest(us, kinds, outs, shapes, n) ==
    IngestWith(us, kinds, outs, shapes, Fetches, Reports, n)

\* a text of u may start a chat round trip while fewer than h round trips
\* of u are recorded (the cap that keeps the history of the model finite)
ChatRoom(u, h) ==
    (/\ IsAuthorized(u)
     /\ ~HasCurrentContact(pending_contact_creation, u)
     /\ HasService(config))
    => HistoryLen(conversation_history, u) < 2 * h

\* the text and /cancel handlers of the users of us, for the texts of
\* texts; the sends inside a try go through as sends allows
DialogWith(us, texts, sends, n) ==
    \/ \E t \in TaskIds, u \in us :
          /\ Cardinality({x \in TaskIds : tasks[x].pc # "idle"}) < n
          /\ \/ \E txt \in texts, sent \in sends :
                   ChatRoom(u, MaxHistory) /\ TextStart(t, u, txt, sent)
             \/ Cancel(t, u)
    \/ \E t \in TaskIds, out \in CallOutcomes, sent \in sends :
          LinkReturn(t, out, sent)
    \/ \E t \in TaskIds, out \in CallOutcomes, found \in SearchResults,
          sent \in sends :
          SearchReturn(t, out, found, sent)
    \/ \E t \in TaskIds, out \in CallOutcomes, sent \in sends :
          CreateReturn(t, out, sent)
    \/ \E t \in TaskIds : ChatRequest(t)
    \/ \E t \in TaskIds, out \in ChatOutcomes, sent \in sends :
          ChatReturn(t, out, ShortResult, IF sent THEN 0 ELSE 1)

\* the text and /cancel handlers, with every way the sends can end
Dialog(us, texts, n) == DialogWith(us, texts, BOOLEAN, n)

\* the handlers of the button presses of the users of us
Buttons(us, n) ==
    \/ \E t \in TaskIds, u \in us, key \in MintedKeys :
          /\ Cardinality({x \in TaskIds : tasks[x].pc # "idle"}) < n
          /\ \E sent \in BOOLEAN : CallbackStart(t, u, key, sent)
    \/ \E t \in TaskIds, out \in CallOutcomes, sent \in BOOLEAN :
          PressLinkReturn(t, out, sent)
    \/ \E t \in TaskIds : PressLinkFinally(t)
    \/ \E t \in TaskIds : PressCreateCleanup(t)
    \/ \E t \in TaskIds : PressCorrectCleanup(t)
    \/ \E t \in TaskIds : PressSkipCleanup(t)

\* the process is started with a configuration of cfgs
InitWith(cfgs) == Init /\ config \in cfgs

FullConfig == [pipeline |-> TRUE, intelligence |-> TRUE, allowed |-> {}]

NoIntelligence == [pipeline |-> TRUE, intelligence |-> FALSE, allowed |-> {"u1"}]

\* voice messages and text replies of one user, handled concurrently; the
\* replies of the dialog go through
Next ==
    \/ Ingest({"u1"}, {"voice"}, {"success", "http_error"}, {"U2"}, MaxTasks)
    \/ DialogWith({"u1"}, DialogTexts, {TRUE}, MaxTasks)

Spec == InitWith({FullConfig}) /\ [][Next]_vars

\* voice messages and text replies of one user, one handler at a time
NextSeq ==
    \/ Ingest({"u1"}, {"voice"}, {"success", "http_error"}, Shapes, 1)
    \/ Dialog({"u1"}, Texts, 1)

SpecSeq == InitWith({FullConfig, NoIntelligence}) /\ [][NextSeq]_vars

\* the ingest events of every kind, of every user, one handler at a time
NextIngest == Ingest(Users, {"voice", "audio"}, FastOutcomes, Shapes, 1)

SpecIngest == InitWith(Configs) /\ [][NextIngest]_vars

\* audio files and button presses of one user, handled concurrently
NextPress ==
    \/ Ingest({"u1"}, {"audio"}, {"success"}, {"M", "M0", "U2"}, MaxTasks)
    \/ Buttons({"u1"}, MaxTasks)

SpecPress == InitWith({FullConfig, NoIntelligence}) /\ [][NextPress]_vars

\* voice messages and text replies of two users, one handler at a time
NextTwo ==
    \/ Ingest(Users, {"voice"}, {"success"}, {"U2"}, 1)
    \/ Dialog(Users, DialogTexts, 1)

SpecTwo == InitWith({FullConfig}) /\ [][NextTwo]_vars

\* the text handlers of the users of us when no session is open: the chat,
\* for at most h recorded round trips of a user, with the response bodies
\* of results
Chat(us, texts, results, n, h) ==
    \/ \E t \in TaskIds, u \in us, txt \in texts :
          /\ Cardinality({x \in TaskIds : tasks[x].pc # "idle"}) < n
          /\ ChatRoom(u, h)
          /\ TextStart(t, u, txt, TRUE)
    \/ \E t \in TaskIds : tasks[t].user \in us /\ ChatRequest(t)
    \/ \E t \in TaskIds, out \in ChatOutcomes, result \in results,
          failing \in 0..MaxMessages :
          tasks[t].user \in us /\ ChatReturn(t, out, result, failing)

\* chat messages of two users, with and without the service URL: the first
\* user chats until the history is cut, the second gets every body; the
\* handlers run concurrently
NextChat ==
    \/ Chat({"u1"}, {<<"J", "o">>}, {ShortResult}, MaxTasks, MaxRounds)
    \/ Chat({"u2"}, {<<" ", "3">>}, ChatResults, 1, MaxHistory)

SpecChat == InitWith({FullConfig, NoIntelligence}) /\ [][NextChat]_vars

\* chat messages of two users, one handler at a time, over more than a day:
\* the first user chats until the history is cut, the second a little
NextHistory ==
    \/ Chat({"u1"}, {<<"J", "o">>}, {ShortResult}, 1, MaxRounds)
    \/ Chat({"u2"}, {<<"3">>}, {ShortResult}, 1, MaxHistory)
    \/ LongTick

SpecHistory == InitWith({FullConfig}) /\ [][NextHistory]_vars

\* voice messages, audio files, button presses and text replies of one
\* user, one handler at a time
NextMixed ==
    \/ Ingest({"u1"}, {"voice", "audio"}, {"success"}, {"M", "U2"}, 1)
    \/ Buttons({"u1"}, 1)
    \/ Dialog({"u1"}, DialogTexts, 1)

SpecMixed == InitWith({FullConfig, NoIntelligence}) /\ [][NextMixed]_vars

\* voice messages whose unmatched contacts carry more candidates than a
\* prompt lists, and text replies, of one user, one handler at a time
NextMany ==
    \/ Ingest({"u1"}, {"voice"}, {"success"}, {"U6"}, 1)
    \/ Dialog({"u1"}, DialogTexts \cup {<<"6">>}, 1)

SpecMany == InitWith({FullConfig}) /\ [][NextMany]_vars

\* voice messages, audio files, text replies and /cancel of two users, both
\* of whom get sessions and histories. The handlers of voice messages and
\* of the numeric replies of the first user start while another handler is
\* suspended; those of audio files and of the names the second user types
\* start when none is, and stay suspended while the others run. The
\* replies go through
NextBoth ==
    \/ IngestWith(Users, {"voice"}, {"success"}, {"U2"}, {"ok"}, {"ok"},
                  MaxTasks)
    \/ IngestWith(Users, {"audio"}, {"success"}, {"U2"}, {"ok"}, {"ok"}, 1)
    \/ DialogWith({"u1"}, {<<" ", "1">>}, {TRUE}, MaxTasks)
    \/ DialogWith({"u2"}, {<<"J", "o">>}, {TRUE}, 1)

SpecBoth == InitWith({FullConfig}) /\ [][NextBoth]_vars

\* ALLOWED_USER_IDS names the first user only, and both URLs are set
Restricted == [pipeline |-> TRUE, intelligence |-> TRUE, allowed |-> {"u1"}]

\* audio files, button presses, chat messages and /cancel of a user on the
\* allow-list and of one outside it, one handler at a time
NextGuard ==
    \/ Ingest(Users, {"audio"}, {"success"}, {"M", "U2"}, 1)
    \/ Buttons(Users, 1)
    \/ Chat(Users, {<<"J", "o">>}, {ShortResult}, 1, MaxHistory)
    \/ \E t \in TaskIds, u \in Users :
          /\ \A x \in TaskIds : tasks[x].pc = "idle"
          /\ Cancel(t, u)

SpecGuard == InitWith({Restricted, NoIntelligence}) /\ [][NextGuard]_vars

\* ================================================================ claims
\* C6: for every file identifier F the first seen(F) returns false and records
\* the time of that sighting; every later seen(F) within 300 seconds of the
\* recorded sighting returns true and leaves the recorded time alone; a
\* seen(F) made more than 300 seconds after it returns false again and
\* records a new first sighting.
C6_SeenContract ==
    /\ last_seen.result = last_seen.expected
    /\ \A f \in DOMAIN recently_processed_files :
          recently_processed_files[f] = sighting[f]
    /\ last_seen.file # 0 =>
          /\ last_seen.file \in DOMAIN recently_processed_files
          /\ recently_processed_files[last_seen.file] =
                IF last_seen.result THEN last_seen.prior ELSE last_seen.at
          /\ last_seen.result <=>
                /\ last_seen.prior # Never
                /\ last_seen.at - last_seen.prior <= DEDUP_TTL

\* a file seen again after its window has passed is recorded anew
C6_Witness ==
    /\ last_seen.prior # Never
    /\ last_seen.at - last_seen.prior > DEDUP_TTL
    /\ ~last_seen.result
    /\ recently_processed_files[last_seen.file] = last_seen.at

\* the record of the handler in slot t after a step: in flight, or returned
HandlerAfter(t) == IF tasks'[t].pc = "idle" THEN finished' ELSE tasks'[t]

\* the step starts a handler in slot t
StartsAt(t) ==
    /\ Free(t)
    /\ \A x \in TaskIds \ {t} : tasks'[x] = tasks[x]
    /\ now' = now
    /\ tasks'[t].pc # "idle" \/ finished'.pc = "done"

\* the handlers of ingest events, in flight and returned
IngestRecords ==
    {r \in {tasks[t] : t \in TaskIds} \cup {finished} :
        r.kind \in {"voice", "audio"}}

\* C7: a delivery of a file that an authorized user sends while the file is
\* in the cache and within its window is discarded before any processing:
\* handling it leaves the pending sessions, the action registry, the callback
\* counter and the conversation history unchanged, issues no fast-path
\* request and no Drive write, and sends no reply.
C7_DuplicateDiscarded ==
    [][\A t \in TaskIds :
        LET r == HandlerAfter(t)
        IN  ( /\ StartsAt(t)
              /\ r.kind \in {"voice", "audio"}
              /\ IsAuthorized(r.user)
              /\ r.file \in DOMAIN recently_processed_files
              /\ now - recently_processed_files[r.file] <= DEDUP_TTL )
            => /\ UNCHANGED <<pending_contact_creation, pending_contact_actions,
                              conversation_history, callback_counter, tasks,
                              ingest_seq, latest>>
               /\ r.pc = "done"
               /\ r.dup
               /\ r.fast_requests = 0
               /\ r.drive_writes = 0
               /\ r.calls = <<>>
               /\ r.outcomes = <<>>
               /\ r.replies = <<>>]_vars

\* a duplicate was discarded while its sender had a session open
C7_Witness ==
    /\ finished.pc = "done"
    /\ finished.dup
    /\ finished.replies = <<>>
    /\ finished.file \in DOMAIN recently_processed_files
    /\ IsSession(pending_contact_creation, finished.user)
    /\ pending_contact_actions # <<>>

\* C10: for every accepted ingest event the fast path is requested once if
\* the pipeline URL is set and never otherwise; when the URL is unset or the
\* request ends in a non-200 status, a status other than success, an
\* exception or a timeout, the handler uploads the bytes to Drive exactly
\* once, and when that upload succeeds the event ends as deferred.
C10_FastPathOrFallback ==
    \A r \in IngestRecords :
        r.seq > 0 =>
            /\ r.fast_requests = IF config.pipeline THEN 1 ELSE 0
            /\ r.drive_writes <= 1
            /\ ( /\ r.pc = "done"
                 /\ \/ ~config.pipeline
                    \/ r.fast \in {"failed", "http_error", "exception",
                                   "timeout"} )
               => /\ r.drive_writes = 1
                  /\ r.stored = "ok" => r.outcomes = <<"deferred">>
                  /\ r.stored = "failed" => r.outcomes = <<"error">>

\* the pipeline answered with an error status, the edit of the status
\* message to "Uploading to Google Drive" raised, and the event ended as an
\* error without an upload
C10_Witness ==
    /\ finished.pc = "done"
    /\ finished.kind \in {"voice", "audio"}
    /\ finished.fast_requests = 1
    /\ finished.fast = "http_error"
    /\ finished.unsent = <<Say("uploading")>>
    /\ finished.drive_writes = 0
    /\ finished.stored = "none"
    /\ finished.outcomes = <<"error">>

\* what handler r handed to Telegram in answer to its update: the message
\* whose send raised, or else the replies that were sent
Tried(r) == IF r.unsent # <<>> THEN r.unsent ELSE r.replies

\* the replies that acknowledge a resolution of the current contact
Resolutions == {"skipped", "linked", "created"}

\* the replies of the dialog that resolve nothing
NonResolutions ==
    {"invalid_selection", "invalid_name", "not_configured", "link_failed",
     "create_failed", "error", "found"}

\* C8: with one handler at a time, every resolution (skip, link, create) of
\* the current contact moves the cursor of the session by exactly one; the
\* session is deleted when the cursor would pass the last contact, so that
\* the n contacts of a session are resolved by exactly n acknowledgements and
\* no session is left; a reply that resolves nothing (one answered with a
\* validation, re-prompt or failure message, or one whose handler raised)
\* leaves the cursor where it was. The acknowledgement of a resolution is
\* the message the handler hands to Telegram; when that send raises, the
\* user gets the error message in its place.
C8_CursorAdvancesByOne ==
    /\ \A u \in Users :
          IsSession(pending_contact_creation, u) =>
            /\ pending_contact_creation[u].current_index = acks[u]
            /\ acks[u] < Len(pending_contact_creation[u].pending_links)
    /\ ( finished.pc = "done" /\ finished.route = "dialog" ) =>
          LET u     == finished.user
              pcc   == pending_contact_creation
              reply == Tried(finished)[1]
              resolved == Tried(finished) # <<>>
                          /\ reply.kind \in Resolutions
          IN  /\ Len(finished.replies) <= 1
              /\ Len(finished.unsent) <= 1
              /\ finished.unsent # <<>> =>
                    finished.replies = <<Say("error")>>
              /\ Tried(finished) # <<>> =>
                    reply.kind \in Resolutions \cup NonResolutions
              /\ resolved =>
                    IF finished.idx0 + 1 < finished.n0
                    THEN /\ IsSession(pcc, u)
                         /\ pcc[u].sid = finished.sid0
                         /\ pcc[u].current_index = finished.idx0 + 1
                         /\ Len(pcc[u].pending_links) = finished.n0
                         /\ reply.prompt.asks
                         /\ reply.prompt.progress =
                               <<finished.idx0 + 2, finished.n0>>
                    ELSE /\ u \notin DOMAIN pcc
                         /\ acks[u] = finished.n0
                         /\ ~reply.prompt.asks
              /\ ~resolved =>
                    /\ IsSession(pcc, u)
                    /\ pcc[u].sid = finished.sid0
                    /\ pcc[u].current_index = finished.idx0
                    /\ Len(pcc[u].pending_links) = finished.n0
                    /\ acks[u] = finished.idx0

\* the second of two contacts was resolved by creating a contact: two
\* acknowledgements, and no session is left
C8_Witness ==
    /\ finished.pc = "done"
    /\ finished.route = "dialog"
    /\ finished.replies # <<>>
    /\ finished.replies[1].kind = "created"
    /\ finished.n0 = 2
    /\ finished.idx0 = 1
    /\ acks[finished.user] = 2
    /\ finished.user \notin DOMAIN pending_contact_creation

\* the handler in slot t was suspended at one of the points of pcs and runs
\* in this step
Resumes(t, pcs) == tasks[t].pc \in pcs /\ tasks'[t] # tasks[t]

\* C1: every user has at most one pending session; a step that starts the
\* handling of an accepted voice or audio message of a user leaves that user
\* without a session, and when the fast path of the message then stores a
\* session, that session holds the unresolved contacts of this message only,
\* as the pipeline returned them, with the cursor at the first.
C1_NewEventDiscardsSession ==
    [][\A t \in TaskIds :
        LET r == HandlerAfter(t)
            u == r.user
        IN  /\ ( StartsAt(t) /\ r.kind \in {"voice", "audio"}
                 /\ IsAuthorized(u) /\ ~r.dup )
               => u \notin DOMAIN pending_contact_creation'
            /\ ( Resumes(t, {"await_pipeline"}) /\ r.queued > 0 )
               => /\ IsSession(pending_contact_creation', u)
                  /\ LET session == pending_contact_creation'[u]
                     IN  /\ DOMAIN session =
                               {"pending_links", "current_index", "sid"}
                         /\ session.sid = r.seq
                         /\ session.current_index = 0
                         /\ Len(session.pending_links) = r.queued
                         /\ \A i \in 1..r.queued :
                               /\ session.pending_links[i].meeting_id[1] = r.file
                               /\ session.pending_links[i].searched_name =
                                     DetectedName
                               /\ session.pending_links[i].suggestions \in
                                     {<<>>, <<"c1", "c2">>}]_vars

\* a voice message that found a session and cleared it has stored its own
\* session, and its prompt went out
C1_Witness ==
    /\ finished.pc = "done"
    /\ finished.kind = "voice"
    /\ finished.cleared
    /\ finished.queued = 2
    /\ IsSession(pending_contact_creation, finished.user)
    /\ pending_contact_creation[finished.user].sid = finished.seq
    /\ pending_contact_creation[finished.user].current_index = 0

\* C2: when no handler of an ingest event of a user is in flight, the session
\* of that user, if any, is the one of the last event the user sent.
C2_NewerEventWins ==
    \A u \in Users :
        ( /\ \A t \in TaskIds :
                ~(tasks[t].kind \in {"voice", "audio"} /\ tasks[t].user = u)
          /\ IsSession(pending_contact_creation, u) )
        => pending_contact_creation[u].sid = latest[u]

\* the handler of the older of two events returned last and left its session
C2_Witness ==
    /\ finished.pc = "done"
    /\ finished.kind = "voice"
    /\ finished.seq < latest[finished.user]
    /\ \A t \in TaskIds : tasks[t].pc = "idle"
    /\ IsSession(pending_contact_creation, finished.user)
    /\ pending_contact_creation[finished.user].sid = finished.seq

\* C3: a text handler that resumes after its link, search or create call
\* while the user's session is no longer the one it read leaves that session
\* as it is.
C3_NoStaleMutation ==
    [][\A t \in TaskIds :
        LET u == tasks[t].user
        IN  ( /\ Resumes(t, {"await_link", "await_search", "await_create"})
              /\ IsSession(pending_contact_creation, u)
              /\ pending_contact_creation[u].sid # tasks[t].sid0 )
            => /\ u \in DOMAIN pending_contact_creation'
               /\ pending_contact_creation'[u] = pending_contact_creation[u]
      ]_vars

\* a handler that read the session of one event acknowledged a link and
\* moved the cursor of the session of a later event
C3_Witness ==
    /\ finished.pc = "done"
    /\ finished.route = "dialog"
    /\ finished.replies # <<>>
    /\ finished.replies[1].kind = "linked"
    /\ finished.idx0 = 0
    /\ IsSession(pending_contact_creation, finished.user)
    /\ pending_contact_creation[finished.user].sid # finished.sid0
    /\ pending_contact_creation[finished.user].current_index = 1

\* the handlers of text messages that were routed, in flight and returned
RoutedTexts ==
    {r \in {tasks[t] : t \in TaskIds} \cup {finished} :
        r.kind = "text" /\ r.route # "none"}

\* C9: a text of a user who has a session when the text is routed is handled
\* as dialog input and no chat request is made for it; a text of a user
\* without a session goes to the chat.
C9_SessionRoutesToDialog ==
    /\ \A t \in TaskIds :
          tasks[t].kind = "text" => tasks[t].route # "none"
    /\ \A r \in RoutedTexts :
          /\ r.had_session <=> r.route = "dialog"
          /\ ~r.had_session <=> r.route = "chat"
          /\ r.had_session =>
                \A i \in 1..Len(r.calls) : r.calls[i].op # "chat"
          /\ r.route = "chat" =>
                \A i \in 1..Len(r.calls) : r.calls[i].op = "chat"

\* a text sent while a session was open was answered by the dialog, while
\* the text of another handler is with the chat
C9_Witness ==
    /\ finished.pc = "done"
    /\ finished.kind = "text"
    /\ finished.had_session
    /\ finished.route = "dialog"
    /\ finished.calls # <<>>
    /\ \E t \in TaskIds : tasks[t].route = "chat" /\ tasks[t].calls # <<>>

\* C4: a press of a key of which a press was handled before is answered with
\* the expired message alone and calls no collaborator.
C4_SecondPressExpired ==
    ( finished.pc = "done" /\ finished.kind = "callback"
      /\ finished.was_pressed )
    => /\ finished.replies = <<Say("expired")>>
       /\ finished.calls = <<>>

\* a skip key was pressed again after its press was handled, and the skip
\* was acknowledged again
C4_Witness ==
    /\ finished.pc = "done"
    /\ finished.kind = "callback"
    /\ finished.was_pressed
    /\ finished.token[1] = "S"
    /\ finished.replies = <<Say("skipped_linking")>>

\* the handler r of a press carried out the action of its key
CarriedOut(r) ==
    /\ r.kind = "callback"
    /\ \/ r.calls # <<>>
       \/ r.pc \in {"create_cleanup", "correct_cleanup"}

\* C5: of two handlers of presses of the same key that are in flight
\* together, at most one carries out the action of the key.
C5_ConsumeAtomic ==
    \A t1, t2 \in TaskIds :
        ( t1 # t2 /\ tasks[t1].token = tasks[t2].token )
        => ~(CarriedOut(tasks[t1]) /\ CarriedOut(tasks[t2]))

\* two handlers of the same link key have both sent the link request
C5_Witness ==
    \E t1, t2 \in TaskIds :
        /\ t1 # t2
        /\ tasks[t1].pc = "await_press_link"
        /\ tasks[t2].pc = "await_press_link"
        /\ tasks[t1].token = tasks[t2].token
        /\ tasks[t1].calls = tasks[t2].calls
        /\ tasks[t1].token \in DOMAIN pending_contact_actions

\* C11: an ingest event whose fast path answered 200 with status success
\* ends as completed, and no Drive upload is made for it, whatever happens
\* while its result and its contact prompt are delivered.
C11_SuccessNeverFallsBack ==
    \A r \in IngestRecords :
        r.fast = "success" =>
            /\ r.drive_writes = 0
            /\ r.pc # "fallback"
            /\ r.pc = "done" => r.outcomes = <<"completed">>

\* the result of a successful fast path could not be delivered, and the file
\* was uploaded to Drive as well
C11_Witness ==
    /\ finished.pc = "done"
    /\ finished.kind \in {"voice", "audio"}
    /\ finished.fast = "success"
    /\ finished.drive_writes = 1
    /\ finished.outcomes[Len(finished.outcomes)] = "deferred"

\* C12: an ingest event whose Drive upload failed ends with the error
\* outcome: the error is the last thing reported, and the event is never
\* reported as deferred.
C12_FailedUploadIsAnError ==
    \A r \in IngestRecords :
        r.stored = "failed" =>
            /\ r.pc = "done"
            /\ r.drive_writes = 1
            /\ r.outcomes # <<>>
            /\ r.outcomes[Len(r.outcomes)] = "error"
            /\ \A i \in 1..Len(r.outcomes) : r.outcomes[i] # "deferred"
            /\ r.fast # "success" => r.outcomes = <<"error">>

\* the fast path timed out and the upload to Drive failed
C12_Witness ==
    /\ finished.pc = "done"
    /\ finished.fast = "timeout"
    /\ finished.stored = "failed"
    /\ finished.outcomes = <<"error">>

\* C20: when an ingest event, voice or audio, ended with a successful fast
\* path whose result has entries that are not matched, the user has a session
\* that holds exactly these entries in their order with the cursor at the
\* first, and the prompt of the first was sent.
C20_UnmatchedAreQueued ==
    ( /\ finished.pc = "done"
      /\ finished.kind \in {"voice", "audio"}
      /\ finished.fast = "success"
      /\ finished.drive_writes = 0
      /\ finished.unmatched # <<>> )
    => /\ IsSession(pending_contact_creation, finished.user)
       /\ LET session == pending_contact_creation[finished.user]
              n       == Len(finished.unmatched)
          IN  /\ session.current_index = 0
              /\ Len(session.pending_links) = n
              /\ \A i \in 1..n :
                    /\ session.pending_links[i].meeting_id =
                          finished.unmatched[i].meeting_id
                    /\ session.pending_links[i].searched_name =
                          finished.unmatched[i].searched_name
                    /\ session.pending_links[i].suggestions =
                          finished.unmatched[i].suggestions
       /\ \E i \in 1..Len(finished.replies) :
             /\ finished.replies[i].kind = "contact_prompt"
             /\ finished.replies[i].prompt.asks

\* an audio file with an unmatched contact was answered with a keyboard, and
\* the user has no session
C20_Witness ==
    /\ finished.pc = "done"
    /\ finished.kind = "audio"
    /\ finished.fast = "success"
    /\ finished.unmatched # <<>>
    /\ finished.replies = <<Say("keyboard")>>
    /\ finished.user \notin DOMAIN pending_contact_creation

\* the step starts the handler r of a text of a user who has a session
Replying(t, r) ==
    /\ StartsAt(t)
    /\ r.kind = "text"
    /\ IsAuthorized(r.user)
    /\ IsSession(pending_contact_creation, r.user)

\* the number a reply of digits denotes, for the replies users send here
NumberTyped(text) ==
    CASE text = <<"0">> -> 0
      [] text = <<" ", "1">> -> 1
      [] text = <<"\t", "1", "\n">> -> 1
      [] text = <<"2">> -> 2
      [] text = <<"3">> -> 3
      [] text = <<"1", "2">> -> 12
      [] text = <<"6">> -> 6

\* the replies that are digit strings other than the skip token
NumericReplies ==
    { <<" ", "1">>, <<"\t", "1", "\n">>, <<"2">>, <<"3">>, <<"1", "2">>,
      <<"6">> }

\* the session of u after a step is the one before it with the cursor moved
\* by one, or is gone when the cursor was at the last contact
Advanced(u) ==
    LET before == pending_contact_creation[u]
    IN  IF before.current_index + 1 < Len(before.pending_links)
        THEN /\ u \in DOMAIN pending_contact_creation'
             /\ pending_contact_creation'[u] =
                   [before EXCEPT !.current_index = @ + 1]
        ELSE u \notin DOMAIN pending_contact_creation'

\* C13: when the current contact has k >= 1 candidates, a numeric reply
\* above k is rejected as an invalid selection, with no call and no change
\* of the sessions; a numeric reply j in 1..k sends the link request for the
\* candidate at position j, and when that request succeeds the cursor moves
\* on by one.
C13_NumericSelection ==
    [][\A t \in TaskIds :
        LET r   == HandlerAfter(t)
            u   == r.user
            cur == CurrentContact(pending_contact_creation, u)
            k   == Len(cur.suggestions)
            j   == NumberTyped(r.text)
        IN  /\ ( Replying(t, r) /\ r.text \in NumericReplies /\ k >= 1 )
               => /\ UNCHANGED pending_contact_creation
                  /\ j > k =>
                        /\ r.pc = "done"
                        /\ r.calls = <<>>
                        /\ r.replies = <<Say("invalid_selection")>>
                  /\ (j <= k /\ config.intelligence) =>
                        /\ r.pc = "await_link"
                        /\ r.replies = <<>>
                        /\ r.calls = <<Call("link", cur.meeting_id,
                                            cur.suggestions[j], <<>>)>>
            /\ ( /\ Resumes(t, {"await_link"})
                 /\ IsSession(pending_contact_creation, u)
                 /\ r.result = "ok" )
               => Advanced(u)]_vars

\* the second candidate of the second contact was linked, and the session
\* is gone
C13_Witness ==
    /\ finished.pc = "done"
    /\ finished.route = "dialog"
    /\ finished.replies # <<>>
    /\ finished.replies[1].kind = "linked"
    /\ finished.calls[1].contact = "c1"
    /\ finished.idx0 = 1
    /\ finished.user \notin DOMAIN pending_contact_creation

\* the text handlers that were routed to the dialog, in flight and returned
DialogRecords == {r \in RoutedTexts : r.route = "dialog"}

\* the handler r left the session it read with the cursor moved by one
CursorMoved(r) ==
    LET pcc == pending_contact_creation
    IN  IF r.idx0 + 1 < r.n0
        THEN /\ IsSession(pcc, r.user)
             /\ pcc[r.user].sid = r.sid0
             /\ pcc[r.user].current_index = r.idx0 + 1
        ELSE r.user \notin DOMAIN pcc

\* C14: a reply of two or more characters that is neither the skip token
\* nor a numeric selection makes one search request for the reply; when the
\* search finds contacts they replace the candidates of the current contact,
\* the user is asked again and the cursor stays; when it finds none, a
\* contact of that name is created and linked to the meeting of the current
\* contact, and when that succeeds the cursor moves on by one.
C14_SearchOrCreate ==
    \A r \in DialogRecords :
        LET typed == Strip(r.text)
            pcc   == pending_contact_creation
        IN  ( ~IsDigit(typed) /\ Len(typed) >= 2 /\ config.intelligence ) =>
            /\ r.calls # <<>>
            /\ r.calls[1] = Call("search", NoId, "", typed)
            /\ \A i \in 2..Len(r.calls) : r.calls[i].op # "search"
            /\ (r.search = "ok" /\ r.found # <<>>) =>
                  /\ r.pc = "done"
                  /\ Len(r.calls) = 1
                  /\ Len(r.replies) = 1
                  /\ Tried(r)[1].kind = "found"
                  /\ Tried(r)[1].prompt.asks
                  /\ IsSession(pcc, r.user)
                  /\ pcc[r.user].sid = r.sid0
                  /\ pcc[r.user].current_index = r.idx0
                  /\ Len(pcc[r.user].pending_links) = r.n0
                  /\ pcc[r.user].pending_links[r.idx0 + 1].suggestions = r.found
                  /\ pcc[r.user].pending_links[r.idx0 + 1].meeting_id =
                        r.meeting_id
            /\ (r.search = "ok" /\ r.found = <<>>) =>
                  /\ r.calls = <<Call("search", NoId, "", typed),
                                 Call("create", r.meeting_id, "", typed)>>
                  /\ r.pc \in {"await_create", "done"}
                  /\ r.pc = "done" => Len(r.replies) = 1
                  /\ (r.pc = "done" /\ r.result = "ok")
                        => /\ CursorMoved(r)
                           /\ Tried(r)[1].kind = "created"
                  /\ (r.pc = "done" /\ r.result # "ok") =>
                        /\ IsSession(pcc, r.user)
                        /\ pcc[r.user].current_index = r.idx0

\* a search found a contact: it is the candidate of the first of two
\* contacts now, and the cursor is still at the first
C14_Witness ==
    /\ finished.pc = "done"
    /\ finished.route = "dialog"
    /\ finished.text = <<"J", "o">>
    /\ finished.found = <<"s1">>
    /\ finished.suggestions = <<"c1", "c2">>
    /\ finished.n0 = 2
    /\ pending_contact_creation[finished.user].current_index = 0
    /\ pending_contact_creation[finished.user].pending_links[1].suggestions
          = <<"s1">>

\* C15: the reply '0' skips the current contact whatever its candidates
\* are: no call is made, the skip is acknowledged, and the cursor moves on
\* by one or the session is deleted with its last contact.
C15_SkipComesFirst ==
    [][\A t \in TaskIds :
        LET r == HandlerAfter(t)
        IN  ( Replying(t, r) /\ r.text = <<"0">> )
            => /\ r.pc = "done"
               /\ r.calls = <<>>
               /\ Len(r.replies) = 1
               /\ r.replies[1].kind = "skipped"
               /\ Advanced(r.user)]_vars

\* a contact with two candidates was skipped, and the second contact is
\* the current one
C15_Witness ==
    /\ finished.pc = "done"
    /\ finished.text = <<"0">>
    /\ finished.suggestions = <<"c1", "c2">>
    /\ finished.replies # <<>>
    /\ finished.replies[1].kind = "skipped"
    /\ finished.replies[1].prompt.progress = <<2, 2>>
    /\ pending_contact_creation[finished.user].current_index = 1

\* the replies that are neither a number nor the skip token and have fewer
\* than two characters after trimming
ShortReplies == { <<"J">>, <<"²">> }

\* C17: a reply that is neither a number nor the skip token and has fewer
\* than two characters after trimming is answered with the validation
\* message; no call is made and the sessions stay as they are.
C17_ShortNameRejected ==
    [][\A t \in TaskIds :
        LET r == HandlerAfter(t)
        IN  ( Replying(t, r) /\ r.text \in ShortReplies )
            => /\ r.pc = "done"
               /\ r.calls = <<>>
               /\ r.replies = <<Say("invalid_name")>>
               /\ UNCHANGED pending_contact_creation]_vars

\* the reply of a superscript two to a contact with candidates was taken
\* for a selection, its conversion raised, and the handler ended without an
\* answer
C17_Witness ==
    /\ finished.pc = "done"
    /\ finished.route = "dialog"
    /\ finished.text = <<"²">>
    /\ finished.suggestions # <<>>
    /\ finished.calls = <<>>
    /\ finished.replies = <<>>
    /\ IsSession(pending_contact_creation, finished.user)
    /\ pending_contact_creation[finished.user].current_index = finished.idx0

\* C18: a numeric reply other than '0' whose value is outside 1..k, for the
\* k >= 0 candidates of the current contact, is answered with a validation
\* message; no call is made and the sessions stay as they are.
C18_OutOfRangeRejected ==
    [][\A t \in TaskIds :
        LET r   == HandlerAfter(t)
            cur == CurrentContact(pending_contact_creation, r.user)
        IN  ( /\ Replying(t, r)
              /\ r.text \in NumericReplies
              /\ NumberTyped(r.text) > Len(cur.suggestions) )
            => /\ r.pc = "done"
               /\ r.calls = <<>>
               /\ Len(r.replies) = 1
               /\ r.replies[1].kind \in {"invalid_selection", "invalid_name"}
               /\ UNCHANGED pending_contact_creation]_vars

\* the reply '12' to a contact without candidates created a contact
C18_Witness ==
    /\ finished.pc = "done"
    /\ finished.text = <<"1", "2">>
    /\ finished.suggestions = <<>>
    /\ finished.calls = <<Call("search", NoId, "", <<"1", "2">>),
                          Call("create", finished.meeting_id, "",
                               <<"1", "2">>)>>
    /\ finished.replies # <<>>
    /\ finished.replies[1].kind = "created"

\* C16: the update after a search that found contacts changes the contact
\* at the cursor only: the cursor, the number and order of the contacts, the
\* meeting and the mode of the current contact, every other contact of the
\* session and the sessions of the other users stay as they are; the
\* candidates and the searched name of the current contact are replaced.
C16_UpdateTouchesCurrentOnly ==
    [][\A t \in TaskIds :
        LET r      == HandlerAfter(t)
            u      == r.user
            before == pending_contact_creation[u]
            after  == pending_contact_creation'[u]
            at     == before.current_index + 1
        IN  ( /\ Resumes(t, {"await_search"})
              /\ r.replies # <<>>
              /\ r.replies[1].kind = "found"
              /\ IsSession(pending_contact_creation, u) )
            => /\ DOMAIN pending_contact_creation' =
                     DOMAIN pending_contact_creation
               /\ \A v \in DOMAIN pending_contact_creation \ {u} :
                     pending_contact_creation'[v] = pending_contact_creation[v]
               /\ DOMAIN after = DOMAIN before
               /\ after.current_index = before.current_index
               /\ after.sid = before.sid
               /\ Len(after.pending_links) = Len(before.pending_links)
               /\ \A i \in 1..Len(before.pending_links) :
                     IF i = at
                     THEN /\ after.pending_links[i].meeting_id =
                               before.pending_links[i].meeting_id
                          /\ after.pending_links[i].mode =
                               before.pending_links[i].mode
                          /\ after.pending_links[i].suggestions = r.found
                          /\ after.pending_links[i].searched_name =
                               Strip(r.text)
                     ELSE after.pending_links[i] = before.pending_links[i]
      ]_vars

\* a search replaced the candidates of the second of two contacts of one
\* user; the first contact and the session of the other user kept theirs
C16_Witness ==
    /\ finished.pc = "done"
    /\ finished.replies # <<>>
    /\ finished.replies[1].kind = "found"
    /\ finished.idx0 = 1
    /\ \A u \in Users : IsSession(pending_contact_creation, u)
    /\ LET mine == pending_contact_creation[finished.user].pending_links
       IN  /\ mine[2].suggestions = <<"s1">>
           /\ mine[2].searched_name = <<"J", "o">>
           /\ mine[1].suggestions = <<"c1", "c2">>
           /\ mine[1].searched_name = DetectedName
    /\ \A u \in Users \ {finished.user} :
          \A i \in 1..Len(pending_contact_creation[u].pending_links) :
             pending_contact_creation[u].pending_links[i].suggestions
                = <<"c1", "c2">>

\* the chat request of the handler in slot t returns 200 in this step
ChatSucceeds(t) ==
    Resumes(t, {"await_chat"}) /\ HandlerAfter(t).result = "ok"

\* the two messages a successful round trip of handler r records: the text
\* the user sent and the reply taken from the body of the response
RoundTrip(r) ==
    << [role |-> "user", content |-> Strip(r.text), timestamp |-> now],
       [role |-> "assistant", content |-> ResponseOf(r.body),
        timestamp |-> now] >>

\* the history of user u before the step
HistoryBefore(u) ==
    IF u \in DOMAIN conversation_history THEN conversation_history[u]
    ELSE <<>>

\* C19 as stated: the conversation history changes only in the step in
\* which a chat request returns 200, and after that step the history of
\* that user is the one before it followed by the text the user sent and
\* the reply of the service, nothing added and nothing removed; a chat that
\* fails, times out, raises or is not configured leaves every history as
\* it was.
C19_HistoryOnSuccessOnly ==
    [][/\ conversation_history' # conversation_history =>
            \E t \in TaskIds : ChatSucceeds(t)
       /\ \A t \in TaskIds :
            LET r == HandlerAfter(t)
            IN  ChatSucceeds(t)
                => /\ DOMAIN conversation_history' =
                         DOMAIN conversation_history \cup {r.user}
                   /\ \A v \in DOMAIN conversation_history \ {r.user} :
                         conversation_history'[v] = conversation_history[v]
                   /\ conversation_history'[r.user] =
                         HistoryBefore(r.user) \o RoundTrip(r)
      ]_vars

\* C19 as amended: the conversation history changes only in the step in
\* which a chat request returns 200; that step appends the text the user
\* sent and then the reply of the service to the history of that user, and
\* a list that an append makes longer than 40 messages is cut to its last
\* 20, so that the history after the step is the end of the appended list:
\* all of it up to 40 messages, 20 messages of a list of 41 and 21 of a
\* list of 42; a chat that fails, times out, raises or is not configured
\* leaves every history as it was, and so does the failure of a send of the
\* reply.
C19_HistoryAppendedAndCut ==
    [][/\ conversation_history' # conversation_history =>
            \E t \in TaskIds : ChatSucceeds(t)
       /\ \A t \in TaskIds :
            LET r     == HandlerAfter(t)
                whole == HistoryBefore(r.user) \o RoundTrip(r)
                after == conversation_history'[r.user]
            IN  ChatSucceeds(t)
                => /\ DOMAIN conversation_history' =
                         DOMAIN conversation_history \cup {r.user}
                   /\ \A v \in DOMAIN conversation_history \ {r.user} :
                         conversation_history'[v] = conversation_history[v]
                   /\ Len(after) =
                         IF Len(whole) <= 2 * MAX_HISTORY_PER_USER
                         THEN Len(whole)
                         ELSE Len(whole) - MAX_HISTORY_PER_USER - 1
                   /\ \A i \in 1..Len(after) :
                         after[i] = whole[Len(whole) - Len(after) + i]
      ]_vars

\* a chat of the first user returned 200 with its history at 40 messages:
\* the history was cut and now starts with a reply; the history of the
\* second user holds a reply of 4000 characters that went out in two
\* messages
C19_Witness ==
    /\ finished.pc = "done"
    /\ finished.user = "u1"
    /\ finished.result = "ok"
    /\ Len(conversation_history["u1"]) = MAX_HISTORY_PER_USER + 1
    /\ conversation_history["u1"][1].role = "assistant"
    /\ conversation_history["u1"][MAX_HISTORY_PER_USER].content
          = Strip(finished.text)
    /\ conversation_history["u1"][MAX_HISTORY_PER_USER + 1].content
          = AiResponse
    /\ "u2" \in DOMAIN conversation_history
    /\ \E i \in 1..Len(conversation_history["u2"]) :
          /\ conversation_history["u2"][i].content = LongResponse
          /\ conversation_history["u2"][i].role = "assistant"

\* ---------------------------------------------------------------- C21
\* the keys a step registers
NewKeys == DOMAIN pending_contact_actions' \ DOMAIN pending_contact_actions

\* C21: every key a call of _short_key returns is one no earlier call
\* returned, whatever its prefix and however the handlers interleave: the
\* counter never decreases, each key a step registers carries a number above
\* the counter the step found and no number another minted key carries, the
\* counter moves by the number of keys registered, and no registration
\* replaces an entry that is still registered.
C21_KeysNeverReused ==
    [][/\ callback_counter' >= callback_counter
       /\ callback_counter' - callback_counter = Cardinality(NewKeys)
       /\ \A key \in NewKeys :
             /\ key \notin MintedKeys
             /\ key[2] > callback_counter
             /\ key[2] <= callback_counter'
             /\ \A other \in (MintedKeys \cup NewKeys) \ {key} :
                   other[2] # key[2]
       /\ \A key \in DOMAIN pending_contact_actions
                        \cap DOMAIN pending_contact_actions' :
             pending_contact_actions'[key] = pending_contact_actions[key]
      ]_vars

\* a second keyboard was built while keys of the first were still registered
\* and others had been pressed
C21_Witness ==
    /\ finished.kind = "audio"
    /\ finished.replies = <<Say("keyboard")>>
    /\ pressed # {}
    /\ \E k1, k2 \in DOMAIN pending_contact_actions :
          /\ pending_contact_actions[k1].meeting_id[1]
                # pending_contact_actions[k2].meeting_id[1]
          /\ k1[1] = k2[1]
    /\ \A key \in DOMAIN pending_contact_actions : key[2] <= callback_counter

\* ---------------------------------------------------------------- C22
\* C22: an ingest event issues at most one request to the pipeline: when the
\* fast path fails the handler goes on to the upload to Google Drive without
\* a second request, and its next step is that upload, made once.
C22_OneFastPathRequest ==
    [][\A t \in TaskIds :
          LET me == tasks[t]
              r  == HandlerAfter(t)
          IN  /\ r.kind \in {"voice", "audio"} => r.fast_requests <= 1
              /\ Resumes(t, {"await_pipeline"}) /\ r.fast # "success" =>
                    /\ r.pc = "fallback"
                    /\ r.fast_requests = 1
                    /\ r.drive_writes = 0
              /\ Resumes(t, {"fallback"}) =>
                    /\ r.pc = "done"
                    /\ r.fast_requests = me.fast_requests
                    /\ r.drive_writes = 1
      ]_vars

\* the fast path of an audio file timed out, and the handler returned from
\* the fallback after one request and without an upload
C22_Witness ==
    /\ finished.pc = "done"
    /\ finished.kind = "audio"
    /\ finished.fast = "timeout"
    /\ finished.fast_requests = 1
    /\ finished.drive_writes = 0
    /\ finished.outcomes = <<"error">>

\* ---------------------------------------------------------------- C23
\* the contact the session of u points at
ContactAtCursor(u) ==
    pending_contact_creation[u].pending_links[
        pending_contact_creation[u].current_index + 1]

\* the step answers the text of handler r with the message kind alone, or
\* with the error message when that send raised: no request, no state written
AnsweredOnly(r, kind) ==
    /\ r.pc = "done"
    /\ r.calls = <<>>
    /\ Len(r.replies) = 1
    /\ Tried(r) = <<Say(kind)>>
    /\ UNCHANGED <<pending_contact_creation, conversation_history>>

\* C23: without INTELLIGENCE_SERVICE_URL a chat message is answered with the
\* hint to send a voice message, and a selection by number within range or a
\* typed name of a user in a session is answered with "not configured"; in
\* each case the handler returns at once, no request is issued, and the
\* session and the conversation history stay as they were.
C23_UnsetUrlAborts ==
    [][~config.intelligence =>
         \A t \in TaskIds :
            LET r == HandlerAfter(t)
                u == r.user
            IN  /\ tasks'[t].kind # "text"
                /\ StartsAt(t) /\ r.kind = "text" /\ IsAuthorized(u) =>
                      IF u \notin DOMAIN pending_contact_creation
                      THEN AnsweredOnly(r, "send_voice_hint")
                      ELSE LET cur == ContactAtCursor(u)
                           IN  /\ r.text \in NumericReplies
                                  /\ NumberTyped(r.text) \in
                                        1..Len(cur.suggestions) =>
                                     AnsweredOnly(r, "not_configured")
                               /\ ( \/ r.text = <<"J", "o">>
                                    \/ /\ r.text = <<"1", "2">>
                                       /\ cur.suggestions = <<>> ) =>
                                     AnsweredOnly(r, "not_configured")
      ]_vars

\* without the URL, a selection by number was turned down while the session
\* stayed open on a contact with candidates
C23_Witness ==
    /\ ~config.intelligence
    /\ finished.kind = "text"
    /\ finished.text = <<" ", "1">>
    /\ finished.replies = <<Say("not_configured")>>
    /\ finished.user \in DOMAIN pending_contact_creation
    /\ ContactAtCursor(finished.user).suggestions # <<>>

\* ---------------------------------------------------------------- C24
\* C24: a reply that is a number j within the range of the candidates of the
\* current contact issues one PATCH link-contact, for the meeting of the
\* current contact and its j-th candidate, and no other request; when the
\* request succeeds for the last contact of the session, the session is
\* removed and the acknowledgement says that all contacts are processed.
C24_NumericReplyLinksOnce ==
    [][\A t \in TaskIds :
          LET r == HandlerAfter(t)
              u == r.user
          IN  /\ /\ Replying(t, r)
                 /\ config.intelligence
                 /\ r.text \in NumericReplies
                 /\ NumberTyped(r.text) \in
                        1..Len(ContactAtCursor(u).suggestions)
                 => /\ r.pc = "await_link"
                    /\ r.replies = <<>>
                    /\ r.calls =
                          <<Call("link", ContactAtCursor(u).meeting_id,
                                 ContactAtCursor(u).suggestions[
                                     NumberTyped(r.text)], <<>>)>>
              /\ Resumes(t, {"await_link"}) =>
                    /\ r.pc = "done"
                    /\ r.calls = tasks[t].calls
                    /\ Len(r.replies) = 1
                    /\ /\ r.result = "ok"
                       /\ u \in DOMAIN pending_contact_creation
                       /\ pending_contact_creation[u].current_index + 1
                            = Len(pending_contact_creation[u].pending_links)
                       => /\ u \notin DOMAIN pending_contact_creation'
                          /\ Tried(r) = <<Reply("linked", NoPrompt, 0)>>
      ]_vars

\* the second and last contact of a session was linked to its first
\* candidate: the session is gone and nothing more is asked
C24_Witness ==
    /\ finished.kind = "text"
    /\ finished.text = <<" ", "1">>
    /\ finished.idx0 = 1
    /\ finished.n0 = 2
    /\ finished.suggestions # <<>>
    /\ finished.calls = <<Call("link", finished.meeting_id,
                               finished.suggestions[1], <<>>)>>
    /\ finished.replies = <<Reply("linked", NoPrompt, 0)>>
    /\ finished.user \notin DOMAIN pending_contact_creation

\* ---------------------------------------------------------------- C25
\* the prompt the handler that just returned sent last
LastPrompt == finished.replies[Len(finished.replies)].prompt

\* the marker of the contact at the cursor of session s: its position and
\* the number of contacts, or none in a session of one contact
MarkerOf(s) ==
    IF Len(s.pending_links) > 1
    THEN <<s.current_index + 1, Len(s.pending_links)>>
    ELSE <<>>

\* C25: every prompt that asks the user to resolve a contact carries the
\* marker (i/total) exactly when the session holds more than one contact,
\* with i the position of the cursor plus one and total the number of
\* contacts of the session.
C25_ProgressMarker ==
    (finished.replies # <<>> /\ LastPrompt.asks) =>
        /\ IsSession(pending_contact_creation, finished.user)
        /\ LastPrompt.progress =
              MarkerOf(pending_contact_creation[finished.user])

\* the prompt that lists the contacts a search found, sent for the first of
\* two contacts, without a marker
C25_Witness ==
    /\ finished.replies # <<>>
    /\ finished.replies[1].kind = "found"
    /\ LastPrompt.asks
    /\ LastPrompt.progress = <<>>
    /\ IsSession(pending_contact_creation, finished.user)
    /\ MarkerOf(pending_contact_creation[finished.user]) = <<1, 2>>

\* ---------------------------------------------------------------- C26
\* what is recorded for user u
Recorded(u) ==
    IF u \in DOMAIN conversation_history THEN conversation_history[u] ELSE <<>>

\* C26: the history a chat request carries is a run of the entries recorded
\* for the user who wrote, the most recent ones in the order they were
\* recorded: at most 20 of them, each recorded at most 24 hours before the
\* request.
C26_HistoryHandedOver ==
    [][\A t \in TaskIds :
          Resumes(t, {"await_typing"}) =>
             LET r      == HandlerAfter(t)
                 h      == r.calls[1].history
                 stored == Recorded(r.user)
                 k      == Len(stored) - Len(h)
             IN  /\ r.calls[1].op = "chat"
                 /\ Len(h) <= 20
                 /\ k >= 0
                 /\ \A i \in 1..Len(h) :
                       /\ h[i] = [role |-> stored[k + i].role,
                                  content |-> stored[k + i].content]
                       /\ now - stored[k + i].timestamp <= 24 * 3600
      ]_vars

\* a request carries the 20 most recent entries of a user for whom more are
\* recorded, some of them older than a day, while the other user has a
\* history of their own
C26_Witness ==
    \E t \in TaskIds :
        /\ tasks[t].pc = "await_chat"
        /\ Len(tasks[t].calls[1].history) = 20
        /\ Len(Recorded(tasks[t].user)) > 20
        /\ \E i \in 1..Len(Recorded(tasks[t].user)) :
              now - Recorded(tasks[t].user)[i].timestamp > 24 * 3600
        /\ \E u \in Users \ {tasks[t].user} : Recorded(u) # <<>>

\* ---------------------------------------------------------------- C27
\* handler r asked the intelligence service to link or create a contact
HasResolvingCall(r) ==
    \E i \in 1..Len(r.calls) : r.calls[i].op \in {"link", "create"}

\* C27: of the text replies of a user that are handled at the same time for
\* the same contact of the same session, at most one has its link or create
\* request issued, and a handler that resumes after such a request when the
\* cursor of that session has already left the contact it read leaves the
\* session as it is, so that the cursor passes no contact that was not
\* itself resolved.
C27_OneResolutionPerContact ==
    [][/\ \A t1, t2 \in TaskIds :
             ( /\ t1 # t2
               /\ tasks[t1].route = "dialog"
               /\ tasks[t2].route = "dialog"
               /\ tasks[t1].user = tasks[t2].user
               /\ tasks[t1].sid0 = tasks[t2].sid0
               /\ tasks[t1].idx0 = tasks[t2].idx0 )
             => ~(HasResolvingCall(tasks[t1]) /\ HasResolvingCall(tasks[t2]))
       /\ \A t \in TaskIds :
             LET u == tasks[t].user
             IN  ( /\ Resumes(t, {"await_link", "await_create"})
                   /\ IsSession(pending_contact_creation, u)
                   /\ pending_contact_creation[u].sid = tasks[t].sid0
                   /\ pending_contact_creation[u].current_index
                        # tasks[t].idx0 )
                 => /\ u \in DOMAIN pending_contact_creation'
                    /\ pending_contact_creation'[u]
                         = pending_contact_creation[u]
      ]_vars

\* two replies "1" to the first of two contacts were both acknowledged: the
\* second acknowledgement closed the session although the second contact
\* was never resolved
C27_Witness ==
    /\ finished.pc = "done"
    /\ finished.route = "dialog"
    /\ finished.text = <<" ", "1">>
    /\ finished.replies = <<Reply("linked", NoPrompt, 0)>>
    /\ finished.idx0 = 0
    /\ finished.n0 = 2
    /\ finished.sid0 = latest[finished.user]
    /\ acks[finished.user] = 2
    /\ finished.user \notin DOMAIN pending_contact_creation
    /\ \A t \in TaskIds : tasks[t].pc = "idle"

\* ---------------------------------------------------------------- C28
\* the state a press of a create or correct button stored is held for u
HasCreationState(pcc, u) ==
    u \in DOMAIN pcc /\ "suggested_name" \in DOMAIN pcc[u]

\* C28: while the state stored by a press of a create or correct button is
\* held for a user, the next text of that user is handled as the name of the
\* contact of the meeting of that button (as input of the dialog, with no
\* chat request), and the state is changed by nothing but a text, a /cancel,
\* a new voice or audio message or a further button press of that user.
C28_PressAwaitsName ==
    [][\A u \in Users :
          HasCreationState(pending_contact_creation, u) =>
             /\ \A t \in TaskIds :
                   LET r == HandlerAfter(t)
                   IN  ( /\ StartsAt(t)
                         /\ r.kind = "text"
                         /\ r.user = u
                         /\ IsAuthorized(u) )
                       => /\ r.route = "dialog"
                          /\ r.meeting_id = pending_contact_creation[u].meeting_id
                          /\ \A i \in 1..Len(r.calls) : r.calls[i].op # "chat"
             /\ \/ HasCreationState(pending_contact_creation', u)
                   /\ pending_contact_creation'[u] = pending_contact_creation[u]
                \/ \E t \in TaskIds :
                      /\ StartsAt(t)
                      /\ HandlerAfter(t).user = u
                      /\ HandlerAfter(t).kind
                            \in {"text", "cancel", "voice", "audio", "callback"}
      ]_vars

\* after a press of a create button the typed name went to the chat: the
\* stored state is gone and the chat endpoint was asked
C28_Witness ==
    /\ finished.pc = "done"
    /\ finished.kind = "text"
    /\ finished.text = <<"J", "o">>
    /\ finished.had_state
    /\ finished.route = "chat"
    /\ Len(finished.calls) = 1
    /\ finished.calls[1].op = "chat"
    /\ finished.user \notin DOMAIN pending_contact_creation
    /\ \E key \in pressed : key[1] = "C"

\* ---------------------------------------------------------------- C30
\* data is a PendingSession: a non-empty list of contacts with a cursor
\* that points at one of them
WellFormedSession(data) ==
    /\ "pending_links" \in DOMAIN data
    /\ "current_index" \in DOMAIN data
    /\ data.pending_links # <<>>
    /\ 0 <= data.current_index
    /\ data.current_index < Len(data.pending_links)

\* C30: in every reachable state every entry of pending_contact_creation is
\* a PendingSession with at least one contact and a cursor within it; a
\* press of a create or correct button does not replace the open session of
\* the user who pressed.
C30_SessionsWellFormed ==
    \A u \in DOMAIN pending_contact_creation :
        WellFormedSession(pending_contact_creation[u])

\* a press of a create or correct button by a user with an open session put
\* its own state in the place of the session
C30_Witness ==
    /\ finished.pc = "done"
    /\ finished.kind = "callback"
    /\ finished.token[1] \in {"C", "R"}
    /\ finished.had_session
    /\ finished.replies = <<Say("type_name")>>
    /\ finished.user \in DOMAIN pending_contact_creation
    /\ ~WellFormedSession(pending_contact_creation[finished.user])
    /\ "suggested_name" \in DOMAIN pending_contact_creation[finished.user]

\* ---------------------------------------------------------------- C29
\* C29: the prompt that lists the contacts a name search found offers
\* "0 = Create new <typed name>", and the reply 0 to it, given while the
\* current contact still holds the contacts found, issues the request that
\* creates a contact of the typed name linked to the meeting of the current
\* contact.
C29_ZeroCreatesAfterSearch ==
    [][\A t \in TaskIds :
          LET r == HandlerAfter(t)
              u == r.user
          IN  /\ \A i \in 1..Len(r.replies) :
                    r.replies[i].kind = "found" =>
                       r.replies[i].prompt.zero = "create"
              /\ ( /\ Replying(t, r)
                   /\ config.intelligence
                   /\ r.text = <<"0">>
                   /\ ContactAtCursor(u).suggestions \in SearchResults \ {<<>>} )
                 => /\ r.pc = "await_create"
                    /\ r.calls = <<Call("create", ContactAtCursor(u).meeting_id,
                                        "", ContactAtCursor(u).searched_name)>>
      ]_vars

\* the reply 0 to the prompt of the contacts found for "Jo" was taken as a
\* skip: no request was issued and the contact was passed
C29_Witness ==
    /\ finished.pc = "done"
    /\ finished.kind = "text"
    /\ finished.text = <<"0">>
    /\ finished.suggestions \in SearchResults \ {<<>>}
    /\ finished.calls = <<>>
    /\ finished.replies # <<>>
    /\ finished.replies[1].kind = "skipped"
    /\ config.intelligence

\* ---------------------------------------------------------------- C31
\* the handler in slot t is the handler of a press of a link button
LinkPress(t) == tasks[t].kind = "callback" /\ tasks[t].token[1] = "L"

\* C31: the handler of a press of a registered link button leaves the key
\* unregistered when it returns, whether the link succeeded, was answered
\* with another status, raised, timed out or was not attempted for want of
\* the service URL; a press of the key that starts after such a return finds
\* it expired and issues no request.
C31_LinkKeyConsumed ==
    [][\A t \in TaskIds :
          LET r == HandlerAfter(t)
          IN  /\ ( /\ LinkPress(t)
                   /\ Resumes(t, {"await_press_link", "link_finally"}) )
                 => /\ r.pc = "done"
                    /\ r.token = tasks[t].token
                    /\ r.token \notin DOMAIN pending_contact_actions'
              /\ ( /\ StartsAt(t)
                   /\ r.kind = "callback"
                   /\ r.token[1] = "L"
                   /\ r.token \in pressed )
                 => /\ r.pc = "done"
                    /\ r.calls = <<>>
                    /\ r.replies = <<Say("expired")>>
      ]_vars

\* the link request of a press failed and the key is gone all the same
C31_Witness ==
    /\ finished.pc = "done"
    /\ finished.kind = "callback"
    /\ finished.token[1] = "L"
    /\ Len(finished.calls) = 1
    /\ finished.replies = <<Say("link_failed")>>
    /\ finished.token \notin DOMAIN pending_contact_actions
    /\ finished.token \in pressed

\* ---------------------------------------------------------------- C32
\* C32: when the PATCH link-contact or the POST contacts made for the
\* current contact is answered with a status other than 200, raises or times
\* out, the handler returns with a failure message and the step leaves
\* pending_contact_creation as it was: the cursor, the contacts and their
\* candidates are unchanged, the same contact stays current, and the count
\* of acknowledged resolutions does not move.
C32_FailedCallResolvesNothing ==
    [][\A t \in TaskIds :
          LET r == HandlerAfter(t)
              u == r.user
          IN  ( /\ Resumes(t, {"await_link", "await_create"})
                /\ r.result # "ok" )
              => /\ r.pc = "done"
                 /\ Len(r.replies) = 1
                 /\ r.replies[1].kind \in {"link_failed", "create_failed", "error"}
                 /\ UNCHANGED <<pending_contact_creation, acks>>
                 /\ ( /\ IsSession(pending_contact_creation, u)
                      /\ pending_contact_creation[u].sid = r.sid0
                      /\ pending_contact_creation[u].current_index = r.idx0 )
                    => /\ HasCurrentContact(pending_contact_creation', u)
                       /\ pending_contact_creation'[u].pending_links[
                              pending_contact_creation'[u].current_index + 1]
                            = ContactAtCursor(u)
      ]_vars

\* the creation of a contact failed for the second contact of a session,
\* which is still the current one
C32_Witness ==
    /\ finished.pc = "done"
    /\ finished.route = "dialog"
    /\ finished.result = "http_error"
    /\ finished.replies = <<Say("create_failed")>>
    /\ finished.idx0 = 1
    /\ IsSession(pending_contact_creation, finished.user)
    /\ pending_contact_creation[finished.user].sid = finished.sid0
    /\ pending_contact_creation[finished.user].current_index = 1
    /\ Len(pending_contact_creation[finished.user].pending_links) = finished.n0

\* ---------------------------------------------------------------- C33
\* C33: a handler issues the request that creates a contact only after its
\* search was answered with status 200 and no contact; when the search is
\* answered with another status no create request follows.
C33_CreateOnlyAfterEmptySearch ==
    \A r \in DialogRecords :
        /\ HasResolvingCall(r) /\ r.search # "none" =>
              /\ r.search = "ok"
              /\ r.found = <<>>
        /\ r.search = "http_error" =>
              \A i \in 1..Len(r.calls) : r.calls[i].op # "create"

\* the search was answered with an error status, and the contact was
\* created and the cursor moved on all the same
C33_Witness ==
    /\ finished.pc = "done"
    /\ finished.route = "dialog"
    /\ finished.text = <<"J", "o">>
    /\ finished.search = "http_error"
    /\ finished.calls = <<Call("search", NoId, "", <<"J", "o">>),
                          Call("create", finished.meeting_id, "", <<"J", "o">>)>>
    /\ finished.replies # <<>>
    /\ finished.replies[1].kind = "created"
    /\ CursorMoved(finished)

\* ---------------------------------------------------------------- C34
\* the candidates a prompt for contact c lists
Listed(c) == SubSeq(c.suggestions, 1, Min(Len(c.suggestions), MAX_SHOWN))

\* C34: a reply that is a number above the count of candidates the prompt
\* listed is turned down and issues no request, and the candidate of every
\* link request of the dialog is one the prompt listed.
C34_OnlyListedCandidates ==
    [][\A t \in TaskIds :
          LET r == HandlerAfter(t)
              u == r.user
          IN  ( /\ Replying(t, r)
                /\ r.text \in NumericReplies
                /\ ContactAtCursor(u).suggestions # <<>> )
              => /\ NumberTyped(r.text) > Len(Listed(ContactAtCursor(u))) =>
                       /\ r.calls = <<>>
                       /\ r.replies = <<Say("invalid_selection")>>
                       /\ UNCHANGED pending_contact_creation
                 /\ \A i \in 1..Len(r.calls) :
                       r.calls[i].op = "link" =>
                          \E j \in 1..Len(Listed(ContactAtCursor(u))) :
                             r.calls[i].contact = Listed(ContactAtCursor(u))[j]
      ]_vars

\* the reply 6 to a prompt that listed five of six candidates linked the
\* sixth
C34_Witness ==
    /\ finished.pc = "done"
    /\ finished.route = "dialog"
    /\ finished.text = <<"6">>
    /\ Len(finished.suggestions) = 6
    /\ finished.calls = <<Call("link", finished.meeting_id, "c6", <<>>)>>
    /\ finished.replies # <<>>
    /\ finished.replies[1].kind = "linked"

\* ---------------------------------------------------------------- C35
\* the step is a step of the handler in slot t
StepOf(t) == StartsAt(t) \/ (tasks[t].pc # "idle" /\ tasks'[t] # tasks[t])

\* C35: under a non-empty allow-list no step of a handler of an update of a
\* user outside the list changes recently_processed_files,
\* pending_contact_actions, pending_contact_creation or
\* conversation_history, and no such handler issues a request.
C35_OutsidersChangeNothing ==
    [][config.allowed # {} =>
         \A t \in TaskIds :
            ( StepOf(t) /\ HandlerAfter(t).user \notin config.allowed )
            => /\ UNCHANGED <<recently_processed_files,
                              pending_contact_actions,
                              pending_contact_creation, conversation_history>>
               /\ HandlerAfter(t).calls = <<>>
      ]_vars

\* a user outside the allow-list pressed a registered link button: the link
\* request was made and the key is gone
C35_Witness ==
    /\ config.allowed = {"u1"}
    /\ finished.pc = "done"
    /\ finished.kind = "callback"
    /\ finished.user = "u2"
    /\ finished.token[1] = "L"
    /\ Len(finished.calls) = 1
    /\ finished.calls[1].op = "link"
    /\ finished.replies = <<Say("linked")>>
    /\ finished.token \notin DOMAIN pending_contact_actions

\* ---------------------------------------------------------------- C36
\* the step leaves what dictionary d holds for user v as it was
SameFor(d, v) ==
    /\ (v \in DOMAIN d') = (v \in DOMAIN d)
    /\ v \in DOMAIN d => d'[v] = d[v]

\* C36: no step of a handler of a voice, audio, text or /cancel update of a
\* user creates, deletes or changes the entry of pending_contact_creation
\* or of conversation_history of another user, however the handlers
\* interleave.
C36_UsersIsolated ==
    [][\A t \in TaskIds :
          ( StepOf(t)
            /\ HandlerAfter(t).kind \in {"voice", "audio", "text", "cancel"} )
          => \A v \in Users \ {HandlerAfter(t).user} :
                /\ SameFor(pending_contact_creation, v)
                /\ SameFor(conversation_history, v)
      ]_vars

\* the handler of a voice message of the first user has run its clearing
\* and stored a session of two references while the second user holds a
\* session whose candidates a search has replaced, with a reply of the
\* second user in flight; both users have a history
C36_Witness ==
    /\ finished.pc = "done"
    /\ finished.kind = "voice"
    /\ finished.user = "u1"
    /\ finished.queued = 2
    /\ IsSession(pending_contact_creation, "u1")
    /\ IsSession(pending_contact_creation, "u2")
    /\ CurrentContact(pending_contact_creation, "u2").suggestions = <<"s1">>
    /\ \E t \in TaskIds :
          tasks[t].user = "u2" /\ tasks[t].pc \in {"await_search", "await_create"}
    /\ \A u \in Users : u \in DOMAIN conversation_history

\* ---------------------------------------------------------------- C37
\* C37: /cancel of a user who has an entry in pending_contact_creation
\* removes it, /cancel of a user without one changes nothing, and no /cancel
\* changes pending_contact_actions, recently_processed_files or
\* conversation_history; a user who has no session gets one only by a step
\* of a voice or audio handler, and a text of an authorized user who has no
\* session is routed to the chat.
C37_CancelFrame ==
    [][\A t \in TaskIds :
          LET r == HandlerAfter(t)
              u == r.user
          IN  /\ ( StartsAt(t) /\ r.kind = "cancel" ) =>
                    /\ u \in DOMAIN pending_contact_creation =>
                          /\ u \notin DOMAIN pending_contact_creation'
                          /\ \A v \in Users \ {u} :
                                SameFor(pending_contact_creation, v)
                          /\ r.replies = <<Say("cancelled")>>
                    /\ u \notin DOMAIN pending_contact_creation =>
                          /\ UNCHANGED pending_contact_creation
                          /\ r.replies = <<Say("nothing_to_cancel")>>
                    /\ UNCHANGED <<pending_contact_actions,
                                   recently_processed_files,
                                   conversation_history>>
              /\ ( /\ StepOf(t)
                   /\ \E v \in Users :
                         /\ ~IsSession(pending_contact_creation, v)
                         /\ IsSession(pending_contact_creation', v) )
                 => r.kind \in {"voice", "audio"}
              /\ ( /\ StartsAt(t)
                   /\ r.kind = "text"
                   /\ IsAuthorized(u)
                   /\ ~IsSession(pending_contact_creation, u) )
                 => r.route = "chat"
      ]_vars

\* /cancel removed the session of a user while buttons were registered and
\* files were in the cache
C37_Witness ==
    /\ finished.pc = "done"
    /\ finished.kind = "cancel"
    /\ finished.had_session
    /\ finished.replies = <<Say("cancelled")>>
    /\ finished.user \notin DOMAIN pending_contact_creation
    /\ DOMAIN pending_contact_actions # {}
    /\ DOMAIN recently_processed_files # {}

\* ---------------------------------------------------------------- C38
\* C38: an ingest event that passed authorization and deduplication is, while
\* its handler runs, waiting for the pipeline or at the upload to Drive with
\* at most one outcome reported, and when its handler has returned exactly
\* one outcome was reported for it: completed, deferred or error.
C38_ExactlyOneOutcome ==
    \A r \in IngestRecords :
        r.seq > 0 =>
            /\ r.pc \in {"await_pipeline", "fallback", "done"}
            /\ Len(r.outcomes) <= 1
            /\ r.pc = "done" =>
                  /\ Len(r.outcomes) = 1
                  /\ r.outcomes[1] \in {"completed", "deferred", "error"}

\* the result of a voice message was reported, the contact prompt could not
\* be sent, and the file was uploaded to Drive and reported as deferred
C38_Witness ==
    /\ finished.pc = "done"
    /\ finished.kind = "voice"
    /\ finished.seq > 0
    /\ finished.outcomes = <<"completed", "deferred">>
    /\ IsSession(pending_contact_creation, finished.user)

\* ---------------------------------------------------------------- C39
\* C39: after a call of _is_duplicate_file no entry of
\* recently_processed_files is older than 300 seconds, and every entry other
\* than the one of the queried file that was at most 300 seconds old before
\* the call is still there with the time it had; the call adds no entry
\* other than the one of the queried file.
C39_PurgeLeavesFreshEntries ==
    [][now' = now =>
         LET f == last_seen'.file
         IN  /\ \A k \in DOMAIN recently_processed_files' :
                   now - recently_processed_files'[k] <= DEDUP_TTL
             /\ \A k \in DOMAIN recently_processed_files \ {f} :
                   now - recently_processed_files[k] <= DEDUP_TTL =>
                      /\ k \in DOMAIN recently_processed_files'
                      /\ recently_processed_files'[k] =
                            recently_processed_files[k]
             /\ \A k \in DOMAIN recently_processed_files' \ {f} :
                   k \in DOMAIN recently_processed_files
      ]_vars

\* a call found the entry of its file more than 300 seconds old and recorded
\* the file anew, and the entry of another file, exactly 300 seconds old, is
\* still in the cache
C39_Witness ==
    /\ last_seen.file # 0
    /\ last_seen.at = now
    /\ last_seen.prior # Never
    /\ last_seen.at - last_seen.prior > DEDUP_TTL
    /\ recently_processed_files[last_seen.file] = now
    /\ \E k \in DOMAIN recently_processed_files \ {last_seen.file} :
          now - recently_processed_files[k] = DEDUP_TTL

====
